---- MODULE Spec2Model ----
(***************************************************************************)
(* Model of the LAN sync subsystem of Aventuras (src-tauri/src/sync).      *)
(*                                                                         *)
(* Spec      : the HTTP handler handle_sync running concurrently on a      *)
(*             ServerState, one action per lock acquisition.               *)
(* SpecToken : the pure functions token_to_connect_code / validate_token.  *)
(* SpecAuth  : the same handler under the failures of the rate limiter.    *)
(* SpecDrain, SpecRestart, SpecSuper, SpecStop : the host commands of      *)
(*             commands.rs (start and stop of the session, the polls of    *)
(*             the UI) running concurrently with the handlers of the       *)
(*             sessions they create.                                       *)
(* SpecStore : a session with its offers, pushes and polls.                *)
(* SpecResponder, SpecRequester, SpecTargets, SpecLoops : the discovery    *)
(*             tasks of server.rs and the commands that start and stop     *)
(*             them.                                                       *)
(* SpecClient : the outbound calls sync_connect, sync_pull_story and       *)
(*             sync_push_story with their timers.                          *)
(* SpecLocks : the commands, handlers and tasks as sequences of lock and   *)
(*             unlock of the tokio mutexes.                                *)
(*                                                                         *)
(* Strings that the code inspects character by character (tokens, connect  *)
(* codes) are sequences of one-character strings.  Strings that the code   *)
(* only copies or compares (ids, titles, payloads) are TLA+ strings.       *)
(* A formatted message is the sequence of its parts.                       *)
(***************************************************************************)
EXTENDS Integers, Sequences, FiniteSets, TLC

VARIABLES
    now,               \* monotonic clock (std::time::Instant), in clock units
    token,             \* ServerState.token
    stories,           \* ServerState.stories          : Vec<StoriesData>
    received_stories,  \* ServerState.received_stories : Vec<String>
    sync_events,       \* ServerState.sync_events      : Vec<SyncEvent>
    auth_failures,     \* ServerState.auth_failures    : HashMap<ip, (count, Instant)>
    req,               \* the in-flight handle_sync invocations
    reply,             \* the request last answered, with its response
    wrong_left,        \* requests with an invalid token still to arrive
    valid_left,        \* requests with a valid token still to arrive
    streak,            \* history: per IP, the failed validations in a row,
                       \*          each less than a block after the one before
    tok_pc,            \* SpecToken: "input", "derived" or "validated"
    tok_in,            \* SpecToken: the server token under test
    req_in,            \* SpecToken: the request token under test
    code_out,          \* SpecToken: result of token_to_connect_code
    valid_out,         \* SpecToken: result of validate_token
    server_handle,     \* SyncState.server_handle    : Option<JoinHandle>, 0 is None
    server_state,      \* SyncState.server_state     : Option<ServerState>, 0 is None
    broadcast_handle,  \* SyncState.broadcast_handle : Option<JoinHandle>, 0 is None
    discovery_handle,  \* SyncState.discovery_handle : Option<JoinHandle>, 0 is None
    discovered_devices,\* SyncState.discovered_devices : Vec<DiscoveredDevice>
    handle_owner,      \* the command holding the server_handle mutex, 0 when free
    tasks,             \* the tokio tasks spawned so far; a JoinHandle is an index
    store,             \* the ServerState instances created so far
    cmd,               \* the host commands in flight
    cmd_result,        \* the command that returned last, with its result
    hreq,              \* the handle_sync invocations in flight, each on its store
    hreply,            \* the request answered last, with its response
    tcp_port,          \* the task whose listener holds SYNC_PORT, 0 when free
    udp_port,          \* the task whose socket holds DISCOVERY_PORT, 0 when free
    udp_sent,          \* the datagrams the responders have sent
    budget,            \* the invocations still to come, per operation
    drains,            \* history: the results of get_sync_events, in call order
    appended,          \* history: per store, every event ever appended to it
    if_addrs,          \* what if_addrs::get_if_addrs() returns on this machine
    mutex,             \* per tokio Mutex, the call that holds it, 0 when free
    thread             \* the calls in flight, each at a lock or an unlock

vars == <<now, token, stories, received_stories, sync_events, auth_failures,
          req, reply, wrong_left, valid_left, streak, tok_pc, tok_in, req_in,
          code_out, valid_out, server_handle, server_state, broadcast_handle,
          discovery_handle, discovered_devices, handle_owner, tasks, store, cmd,
          cmd_result, hreq, hreply, tcp_port, udp_port, udp_sent, budget, drains,
          appended, if_addrs, mutex, thread>>

serverVars == <<now, token, stories, received_stories, sync_events,
                auth_failures, req, reply, wrong_left, valid_left, streak>>
tokenVars  == <<tok_pc, tok_in, req_in, code_out, valid_out>>
hostVars   == <<server_handle, server_state, broadcast_handle, discovery_handle,
                discovered_devices, handle_owner, tasks, store, cmd, cmd_result,
                hreq, hreply, tcp_port, udp_port, udp_sent, budget, drains,
                appended, if_addrs, mutex, thread>>
lockVars   == <<mutex, thread>>

-----------------------------------------------------------------------------
(* Program constants                                                       *)

MAX_AUTH_FAILURES        == 5
AUTH_BLOCK_DURATION_SECS == 60

(* Bounds of the model                                                     *)

UnitsPerSec == 2     \* resolution of the clock: units per second
AuthSecs    == 60    \* SpecAuth: the clock stops advancing here (seconds)
SyncSecs    == 30    \* Spec: the clock stops advancing here (seconds)
NumHandlers == 2     \* concurrent handle_sync invocations
AuthWrong   == 6     \* SpecAuth: requests with an invalid token
AuthValid   == 1     \* SpecAuth: requests with a valid token
SyncWrong   == 1     \* Spec: requests with an invalid token
SyncValid   == 2     \* Spec: requests with a valid token

NoValue == "none"

-----------------------------------------------------------------------------
(* Characters and numbers                                                  *)

HexChars == <<"0","1","2","3","4","5","6","7","8","9","a","b","c","d","e","f">>
DecChars == <<"0","1","2","3","4","5","6","7","8","9">>

IsHexChar(c) == \E i \in 1..16 : HexChars[i] = c
HexVal(c)    == (CHOOSE i \in 1..16 : HexChars[i] = c) - 1
IsDecChar(c) == \E i \in 1..10 : DecChars[i] = c
DecVal(c)    == (CHOOSE i \in 1..10 : DecChars[i] = c) - 1

RECURSIVE Pow(_, _)
Pow(b, e) == IF e = 0 THEN 1 ELSE b * Pow(b, e - 1)

(* str.replace('-', "")                                                    *)
RemoveHyphens(s) == SelectSeq(s, LAMBDA c : c # "-")

(* Value of a string of at most four hex digits (fits 16 bits).            *)
RECURSIVE HexHalf(_)
HexHalf(s) == IF s = <<>> THEN 0
              ELSE 16 * HexHalf(SubSeq(s, 1, Len(s) - 1)) + HexVal(s[Len(s)])

(* u32::from_str_radix(s, 16): Err for the empty string, for a lone sign   *)
(* and for any character that is not a hex digit; one leading '+' is       *)
(* accepted.  At most 8 digits reach it here, so the value always fits 32  *)
(* bits; it is kept as its two 16-bit halves.                              *)
from_str_radix_16(s) ==
    LET digits == IF s # <<>> /\ s[1] = "+" THEN Tail(s) ELSE s
        n      == Len(digits)
    IN  IF digits = <<>> \/ \E i \in 1..n : ~IsHexChar(digits[i])
        THEN [ok |-> FALSE, hi |-> 0, lo |-> 0]
        ELSE [ok |-> TRUE,
              hi |-> IF n > 4 THEN HexHalf(SubSeq(digits, 1, n - 4)) ELSE 0,
              lo |-> IF n > 4 THEN HexHalf(SubSeq(digits, n - 3, n))
                              ELSE HexHalf(digits)]

(* (hi * 2^16 + lo) % m for a 32-bit value kept as halves, m <= 10^6.      *)
U32Mod(hi, lo, m) == (((((hi * 256) % m) * 256) % m) + lo) % m

(* Decimal digits of n, most significant first; "0" for 0.                 *)
RECURSIVE ToDecimal(_)
ToDecimal(n) == IF n < 10 THEN <<DecChars[n + 1]>>
                ELSE Append(ToDecimal(n \div 10), DecChars[(n % 10) + 1])

(* format!("{:0w$}", n): left-padded with zeros to at least w characters.  *)
ZeroPad(n, w) ==
    LET d == ToDecimal(n)
    IN  IF Len(d) >= w THEN d ELSE [i \in 1..(w - Len(d)) |-> "0"] \o d

-----------------------------------------------------------------------------
(* server.rs: token_to_connect_code, validate_token                        *)

CODE_MODULUS == 1000000
CODE_WIDTH   == 6
HEX_PREFIX   == 8

(* A variant that formats the number with "{}" instead of "{:06}".         *)
token_to_connect_code_NoPad(t) ==
    LET clean   == RemoveHyphens(t)
        hex_str == IF Len(clean) >= HEX_PREFIX THEN SubSeq(clean, 1, HEX_PREFIX)
                                               ELSE clean
        parsed  == from_str_radix_16(hex_str)
        val_mod == IF parsed.ok THEN U32Mod(parsed.hi, parsed.lo, CODE_MODULUS)
                                ELSE 0
    IN  ToDecimal(val_mod)

token_to_connect_code(t) ==
    LET clean   == RemoveHyphens(t)
        hex_str == IF Len(clean) >= HEX_PREFIX THEN SubSeq(clean, 1, HEX_PREFIX)
                                               ELSE clean
        parsed  == from_str_radix_16(hex_str)
        val_mod == IF parsed.ok THEN U32Mod(parsed.hi, parsed.lo, CODE_MODULUS)
                                ELSE 0     \* unwrap_or(0)
    IN  ZeroPad(val_mod, CODE_WIDTH)

validate_token(request_token, server_token) ==
    \/ request_token = server_token
    \/ request_token = token_to_connect_code(server_token)

-----------------------------------------------------------------------------
(* Inputs                                                                  *)

IPs      == {"10.0.0.1", "10.0.0.2"}
Handlers == 1..NumHandlers

(* Uuid::new_v4().to_string(): 8-4-4-4-12 lower-case hex digits.           *)
SessionToken ==
    <<"c","0","e","1","7","1","0","1","-","4","b","1","d","-","4","e","5","f",
      "-","8","a","2","c","-","0","1","2","3","4","5","6","7","8","9","a","b">>

WrongToken == <<"1","2","3","4","5","6">>

RequestTokens(t) == {t, token_to_connect_code(t), WrongToken}

Preview(id, title, n) ==
    [id |-> id, title |-> title, genre |-> NoValue, updated_at |-> 0,
     entry_count |-> n]
StoriesData(id, title, n, json) ==
    [preview |-> Preview(id, title, n), full_data |-> json]

OfferA  == StoriesData("a", "Alpha", 3, "json-alpha")
OfferB  == StoriesData("b", "Beta", 0, "json-beta")
OfferA2 == StoriesData("a", "Alpha (copy)", 1, "json-alpha-copy")

(* The offers start_sync_server may have loaded: distinct ids, or the same *)
(* id exported twice.                                                      *)
OfferLists == { <<OfferA, OfferB>>, <<OfferB, OfferA, OfferA2>> }

SyncAction(type, arg) == [type |-> type, arg |-> arg]
StoryIds == {"a", "b", "missing"}
Payloads == {"X", "Y"}

-----------------------------------------------------------------------------
(* types.rs: SyncResponse, SyncEvent                                       *)

NoResponse == [type |-> NoValue, message |-> <<>>, stories |-> <<>>, data |-> ""]
ErrorResponse(msg) ==
    [type |-> "Error", message |-> msg, stories |-> <<>>, data |-> ""]
SuccessResponse(msg) ==
    [type |-> "Success", message |-> msg, stories |-> <<>>, data |-> ""]
StoriesListResponse(previews) ==
    [type |-> "StoriesList", message |-> <<>>, stories |-> previews, data |-> ""]
StoryDataResponse(d) ==
    [type |-> "StoryData", message |-> <<>>, stories |-> <<>>, data |-> d]

SyncEvent(type, msg) == [event_type |-> type, message |-> msg]

-----------------------------------------------------------------------------
(* server.rs: the rate limiter of handle_sync                              *)

(* Duration::as_secs: whole seconds, truncated.                            *)
as_secs(d) == d \div UnitsPerSec

(* Instant::elapsed of an instant t read at time n.                        *)
elapsed(t, n) == n - t

(* Variants of the rate limiter with one slip each.                        *)
IsBlocked_AboveThreshold(failures, ip, n) ==
    /\ ip \in DOMAIN failures
    /\ failures[ip].count > MAX_AUTH_FAILURES
    /\ as_secs(elapsed(failures[ip].last, n)) < AUTH_BLOCK_DURATION_SECS

IsBlocked_Inclusive(failures, ip, n) ==
    /\ ip \in DOMAIN failures
    /\ failures[ip].count >= MAX_AUTH_FAILURES
    /\ as_secs(elapsed(failures[ip].last, n)) <= AUTH_BLOCK_DURATION_SECS

RecordFailure_NoReset(failures, ip, n) ==
    LET inserted == IF ip \in DOMAIN failures THEN failures[ip]
                    ELSE [count |-> 0, last |-> n]
        entry    == [count |-> inserted.count + 1, last |-> n]
    IN  [i \in DOMAIN failures \cup {ip} |-> IF i = ip THEN entry ELSE failures[i]]

RecordFailure_DropOthers(failures, ip, n) ==
    LET inserted == IF ip \in DOMAIN failures THEN failures[ip]
                    ELSE [count |-> 0, last |-> n]
        reset    == IF as_secs(elapsed(inserted.last, n)) >= AUTH_BLOCK_DURATION_SECS
                    THEN [count |-> 0, last |-> n]
                    ELSE inserted
    IN  [i \in {ip} |-> [count |-> reset.count + 1, last |-> n]]

ClearFailures_ResetOnly(failures, ip) ==
    [i \in DOMAIN failures |->
        IF i = ip THEN [count |-> 0, last |-> failures[i].last] ELSE failures[i]]

(* lines 116-119: the IP has a record, its count reached the threshold and *)
(* the block has not expired.                                              *)
IsBlocked(failures, ip, n) ==
    /\ ip \in DOMAIN failures
    /\ failures[ip].count >= MAX_AUTH_FAILURES
    /\ as_secs(elapsed(failures[ip].last, n)) < AUTH_BLOCK_DURATION_SECS

TooManyMessage(failures, ip, n) ==
    <<"Too many failed attempts. Try again in ",
      ToString(AUTH_BLOCK_DURATION_SECS - as_secs(elapsed(failures[ip].last, n))),
      " seconds.">>

InvalidTokenMessage == <<"Invalid authentication token">>

(* lines 135-144: entry().or_insert, reset when expired, increment, stamp. *)
RecordFailure(failures, ip, n) ==
    LET inserted == IF ip \in DOMAIN failures THEN failures[ip]
                    ELSE [count |-> 0, last |-> n]
        reset    == IF as_secs(elapsed(inserted.last, n)) >= AUTH_BLOCK_DURATION_SECS
                    THEN [count |-> 0, last |-> n]
                    ELSE inserted
        entry    == [count |-> reset.count + 1, last |-> n]
    IN  [i \in DOMAIN failures \cup {ip} |-> IF i = ip THEN entry ELSE failures[i]]

(* lines 153-154: failures.remove(&client_ip)                              *)
ClearFailures(failures, ip) ==
    [i \in DOMAIN failures \ {ip} |-> failures[i]]

-----------------------------------------------------------------------------
(* server.rs: the three actions of handle_sync                             *)

(* Variants of the actions with one slip each.                             *)
Previews_Reversed(offers) ==
    [i \in 1..Len(offers) |-> offers[Len(offers) + 1 - i].preview]

FindStory_Last(offers, story_id) ==
    IF \E i \in 1..Len(offers) : offers[i].preview.id = story_id
    THEN CHOOSE i \in 1..Len(offers) :
            /\ offers[i].preview.id = story_id
            /\ \A j \in (i + 1)..Len(offers) : offers[j].preview.id # story_id
    ELSE 0

PushReceived_Dedup(received, story_data) ==
    IF \E i \in 1..Len(received) : received[i] = story_data
    THEN received
    ELSE Append(received, story_data)

(* A variant that puts the story in front.                                 *)
PushReceived_Front(received, story_data) == <<story_data>> \o received

(* lines 160-161: stories.iter().map(|s| s.preview.clone()).collect()      *)
Previews(offers) == [i \in 1..Len(offers) |-> offers[i].preview]

(* lines 167-170; the dash of the message is an em dash in the source.     *)
ConnectedEvent(count) ==
    SyncEvent("connected",
              <<"Device connected - ", ToString(count), " stories available">>)

(* line 177: stories.iter().find(|s| s.preview.id == story_id), as the     *)
(* index of the first match, 0 when there is none.                         *)
FindStory(offers, story_id) ==
    IF \E i \in 1..Len(offers) : offers[i].preview.id = story_id
    THEN CHOOSE i \in 1..Len(offers) :
            /\ offers[i].preview.id = story_id
            /\ \A j \in 1..(i - 1) : offers[j].preview.id # story_id
    ELSE 0

PulledEvent(title) ==
    SyncEvent("pulled", <<"Sent \"", title, "\" to other device">>)

NotFoundMessage(story_id) == <<"Story not found: ", story_id>>

PushedEvent == SyncEvent("pushed", <<"Receiving story from other device...">>)

(* line 209: received.push(story_data)                                     *)
PushReceived(received, story_data) == Append(received, story_data)

ReceivedMessage == <<"Story received successfully">>

-----------------------------------------------------------------------------
(* The handler as a state machine.  A handler h is one invocation of       *)
(* handle_sync; its pc names the lock acquisition it performs next.        *)
(*   idle     -> (request arrives, lines 113-130) -> validate | idle       *)
(*   validate -> (lines 132-155)                  -> dispatch | idle       *)
(*   dispatch -> (lines 157-206)                  -> store | idle          *)
(*   store    -> (lines 208-213)                  -> idle                  *)
(* A handler that returns leaves its request and its response in reply and *)
(* is idle again.  The action of a request is drawn where the code first   *)
(* reads it (line 157).                                                    *)

IdleRequest ==
    [pc |-> "idle", ip |-> NoValue, token |-> <<>>,
     action |-> SyncAction(NoValue, ""), resp |-> NoResponse]

NoReply == [h |-> 0, ip |-> NoValue, token |-> <<>>,
            action |-> SyncAction(NoValue, ""), resp |-> NoResponse]

(* return Json(response): handler h ends, r is the request it served.      *)
Return(h, r, response) ==
    /\ req' = [req EXCEPT ![h] = IdleRequest]
    /\ reply' = [h |-> h, ip |-> r.ip, token |-> r.token, action |-> r.action,
                 resp |-> response]

(* History: the run of failed validations of an IP, from the times alone.  *)
NoStreak == [n |-> 0, last |-> 0]
BlockUnits == AUTH_BLOCK_DURATION_SECS * UnitsPerSec
ExtendStreak(s, n) ==
    IF s.n > 0 /\ n - s.last < BlockUnits
    THEN [n |-> s.n + 1, last |-> n]
    ELSE [n |-> 1, last |-> n]

(* lines 106-130: a request arrives and passes or fails the rate limit.    *)
RateLimitCheck(h, ip, tok) ==
    /\ req[h].pc = "idle"
    /\ IF validate_token(tok, token)
       THEN valid_left > 0 /\ valid_left' = valid_left - 1 /\ UNCHANGED wrong_left
       ELSE wrong_left > 0 /\ wrong_left' = wrong_left - 1 /\ UNCHANGED valid_left
    /\ LET r == [IdleRequest EXCEPT !.pc = "validate", !.ip = ip, !.token = tok]
       IN  IF IsBlocked(auth_failures, ip, now)
           THEN Return(h, r, ErrorResponse(TooManyMessage(auth_failures, ip, now)))
           ELSE req' = [req EXCEPT ![h] = r] /\ UNCHANGED reply
    /\ UNCHANGED <<now, token, stories, received_stories, sync_events,
                   auth_failures, streak>>

(* lines 132-155: the token is validated; a failure is recorded, a success *)
(* removes the record of the IP.                                           *)
ValidateToken(h) ==
    /\ req[h].pc = "validate"
    /\ IF ~validate_token(req[h].token, token)
       THEN /\ auth_failures' = RecordFailure(auth_failures, req[h].ip, now)
            /\ Return(h, req[h], ErrorResponse(InvalidTokenMessage))
            /\ streak' = [streak EXCEPT ![req[h].ip] = ExtendStreak(@, now)]
       ELSE /\ auth_failures' = ClearFailures(auth_failures, req[h].ip)
            /\ req' = [req EXCEPT ![h].pc = "dispatch"]
            /\ streak' = [streak EXCEPT ![req[h].ip] = NoStreak]
            /\ UNCHANGED reply
    /\ UNCHANGED <<now, token, stories, received_stories, sync_events,
                   wrong_left, valid_left>>

(* lines 158-174                                                           *)
ListStories(h) ==
    /\ req[h].pc = "dispatch"
    /\ LET previews == Previews(stories)
       IN  /\ sync_events' = Append(sync_events, ConnectedEvent(Len(previews)))
           /\ Return(h, [req[h] EXCEPT !.action = SyncAction("ListStories", "")],
                     StoriesListResponse(previews))
    /\ UNCHANGED <<now, token, stories, received_stories, auth_failures,
                   wrong_left, valid_left, streak>>

(* lines 175-197                                                           *)
PullStory(h, story_id) ==
    /\ req[h].pc = "dispatch"
    /\ LET i == FindStory(stories, story_id)
           r == [req[h] EXCEPT !.action = SyncAction("PullStory", story_id)]
       IN  IF i # 0
           THEN /\ sync_events' =
                      Append(sync_events, PulledEvent(stories[i].preview.title))
                /\ Return(h, r, StoryDataResponse(stories[i].full_data))
           ELSE /\ Return(h, r, ErrorResponse(NotFoundMessage(story_id)))
                /\ UNCHANGED sync_events
    /\ UNCHANGED <<now, token, stories, received_stories, auth_failures,
                   wrong_left, valid_left, streak>>

(* lines 198-206: the 'pushed' event is logged under the events lock.      *)
PushStoryEvent(h, story_data) ==
    /\ req[h].pc = "dispatch"
    /\ sync_events' = Append(sync_events, PushedEvent)
    /\ req' = [req EXCEPT ![h].pc = "store",
                          ![h].action = SyncAction("PushStory", story_data)]
    /\ UNCHANGED <<now, token, stories, received_stories, auth_failures, reply,
                   wrong_left, valid_left, streak>>

(* lines 208-213: the payload is stored under the received-stories lock.   *)
PushStoryStore(h) ==
    /\ req[h].pc = "store"
    /\ received_stories' = PushReceived(received_stories, req[h].action.arg)
    /\ Return(h, req[h], SuccessResponse(ReceivedMessage))
    /\ UNCHANGED <<now, token, stories, sync_events, auth_failures,
                   wrong_left, valid_left, streak>>

(* Time passes: half a block, or one clock unit less than a whole block.   *)
TimeSteps ==
    { (AUTH_BLOCK_DURATION_SECS \div 2) * UnitsPerSec,
      AUTH_BLOCK_DURATION_SECS * UnitsPerSec - 1 }

Tick(d, max_secs) ==
    /\ now + d <= max_secs * UnitsPerSec
    /\ now' = now + d
    /\ UNCHANGED <<token, stories, received_stories, sync_events,
                   auth_failures, req, reply, wrong_left, valid_left, streak>>

-----------------------------------------------------------------------------
(* commands.rs: SyncState, and what the host has spawned and created.      *)

NumCmds == 2     \* host commands in flight at once
Cmds    == 1..NumCmds

(* Option<Vec<_>>                                                          *)
None       == [some |-> FALSE, list |-> <<>>]
Some(list) == [some |-> TRUE, list |-> list]

IdleCmd  == [op |-> NoValue, pc |-> "idle", arg |-> None, sid |-> 0, task |-> 0]
NoResult == [op |-> NoValue, ok |-> TRUE, value |-> <<>>]

IdleHandler ==
    [pc |-> "idle", sid |-> 0, ip |-> NoValue, token |-> <<>>,
     action |-> SyncAction(NoValue, "")]
NoHostReply == [sid |-> 0, action |-> SyncAction(NoValue, ""), resp |-> NoResponse]

BudgetOps ==
    {"start_sync_server", "stop_sync_server", "get_sync_events",
     "get_received_stories", "clear_received_stories", "start_udp_broadcast",
     "stop_udp_broadcast", "start_discovery", "stop_discovery", "wrong",
     "valid", "datagram"}
NoBudget == [op \in BudgetOps |-> 0]

(* A network interface as if_addrs reports it: an IPv4 address with its    *)
(* netmask, as octets, or an IPv6 address.                                 *)
V4(ip, netmask) == [v4 |-> TRUE, ip |-> ip, netmask |-> netmask, loopback |-> ip[1] = 127]
V6(loopback)    == [v4 |-> FALSE, ip |-> <<0, 0, 0, 0>>, netmask |-> <<0, 0, 0, 0>>,
                    loopback |-> loopback]

(* io::Result<Vec<Interface>>                                              *)
IfOk(list) == [ok |-> TRUE, list |-> list]
IfErr      == [ok |-> FALSE, list |-> <<>>]

Wlan == V4(<<192, 168, 1, 42>>, <<255, 255, 255, 0>>)

(* lines 33-43: SyncState::default()                                       *)
SyncState_default ==
    /\ server_handle = 0
    /\ server_state = 0
    /\ broadcast_handle = 0
    /\ discovery_handle = 0
    /\ discovered_devices = <<>>

(* The mutexes of SyncState (commands.rs:20-43) and of one ServerState     *)
(* (server.rs), and the calls that take them.                              *)
Mutexes ==
    {"server_handle", "server_state", "broadcast_handle", "discovery_handle",
     "discovered_devices", "stories", "sync_events", "received_stories",
     "auth_failures"}

NumThreads == 2     \* calls that take mutexes, in flight at once
Threads    == 1..NumThreads
IdleThread == [call |-> NoValue, prog |-> <<>>, pc |-> 0]

(* The host before any command: nothing spawned, nothing created; its      *)
(* interfaces are those of interfaces.                                     *)
InitHostOn(b, interfaces) ==
    /\ SyncState_default
    /\ handle_owner = 0
    /\ tasks = <<>>
    /\ store = <<>>
    /\ cmd = [c \in Cmds |-> IdleCmd]
    /\ cmd_result = NoResult
    /\ hreq = [h \in Handlers |-> IdleHandler]
    /\ hreply = NoHostReply
    /\ tcp_port = 0
    /\ udp_port = 0
    /\ udp_sent = <<>>
    /\ budget = b
    /\ drains = <<>>
    /\ appended = <<>>
    /\ if_addrs = interfaces
    /\ mutex = [m \in Mutexes |-> 0]
    /\ thread = [p \in Threads |-> IdleThread]

(* A host with one wireless interface.                                     *)
InitHost(b) == InitHostOn(b, IfOk(<<Wlan>>))

-----------------------------------------------------------------------------
(* ServerState::new(token), with the offers start_sync_server loaded and   *)
(* the requests that will arrive.                                          *)
InitServer(offer_lists, wrong, valid) ==
    /\ now = 0
    /\ token = SessionToken
    /\ stories \in offer_lists
    /\ received_stories = <<>>
    /\ sync_events = <<>>
    /\ auth_failures = <<>>
    /\ req = [h \in Handlers |-> IdleRequest]
    /\ reply = NoReply
    /\ wrong_left = wrong
    /\ valid_left = valid
    /\ streak = [ip \in IPs |-> NoStreak]

InitToken ==
    /\ tok_pc = "input"
    /\ tok_in = <<>>
    /\ req_in = <<>>
    /\ code_out = <<>>
    /\ valid_out = FALSE

Init     == InitServer(OfferLists, SyncWrong, SyncValid) /\ InitToken
            /\ InitHost(NoBudget)
InitAuth == InitServer({<<OfferA, OfferB>>}, AuthWrong, AuthValid) /\ InitToken
            /\ InitHost(NoBudget)

Next ==
    \/ \E h \in Handlers, ip \in IPs, tok \in RequestTokens(token) :
          RateLimitCheck(h, ip, tok) /\ UNCHANGED <<tokenVars, hostVars>>
    \/ \E h \in Handlers : ValidateToken(h) /\ UNCHANGED <<tokenVars, hostVars>>
    \/ \E h \in Handlers : ListStories(h) /\ UNCHANGED <<tokenVars, hostVars>>
    \/ \E h \in Handlers, id \in StoryIds : PullStory(h, id) /\ UNCHANGED <<tokenVars, hostVars>>
    \/ \E h \in Handlers, d \in Payloads : PushStoryEvent(h, d) /\ UNCHANGED <<tokenVars, hostVars>>
    \/ \E h \in Handlers : PushStoryStore(h) /\ UNCHANGED <<tokenVars, hostVars>>
    \/ \E d \in TimeSteps : Tick(d, SyncSecs) /\ UNCHANGED <<tokenVars, hostVars>>

(* The rate limiter under load: every request is a ListStories request.    *)
NextAuth ==
    \/ \E h \in Handlers, ip \in IPs, tok \in RequestTokens(token) :
          RateLimitCheck(h, ip, tok) /\ UNCHANGED <<tokenVars, hostVars>>
    \/ \E h \in Handlers : ValidateToken(h) /\ UNCHANGED <<tokenVars, hostVars>>
    \/ \E h \in Handlers : ListStories(h) /\ UNCHANGED <<tokenVars, hostVars>>
    \/ \E d \in TimeSteps : Tick(d, AuthSecs) /\ UNCHANGED <<tokenVars, hostVars>>

Spec     == Init /\ [][Next]_vars
SpecAuth == InitAuth /\ [][NextAuth]_vars

-----------------------------------------------------------------------------
(* The pairing functions on their own: a token as Uuid::new_v4 renders it, *)
(* its first group drawn from HexSample, and a request token that is the   *)
(* token, its code, or a near miss of either.                              *)

HexSample == {"0", "9", "f"}

UuidTail ==
    <<"-","4","b","1","d","-","4","e","5","f","-","8","a","2","c","-",
      "0","1","2","3","4","5","6","7","8","9","a","b">>

TokenInputs == { g \o UuidTail : g \in [1..HEX_PREFIX -> HexSample] }

(* The k-th character of t that is not a hyphen.                           *)
RECURSIVE NthHex(_, _, _)
NthHex(t, k, from) ==
    IF t[from] = "-" THEN NthHex(t, k, from + 1)
    ELSE IF k = 1 THEN t[from]
    ELSE NthHex(t, k - 1, from + 1)

(* The first 8 hex characters of t as an unsigned 32-bit number, modulo    *)
(* 10^6: the sum of digit * 16^position, each term reduced first.          *)
RefCodeValue(t) ==
    LET term(k) == HexVal(NthHex(t, k, 1)) * (Pow(16, HEX_PREFIX - k) % 1000000)
        sum[k \in 0..HEX_PREFIX] == IF k = 0 THEN 0 ELSE sum[k - 1] + term(k)
    IN  sum[HEX_PREFIX] % 1000000

(* Exactly six decimal digits, most significant first.                     *)
RefCodeString(t) ==
    [i \in 1..6 |-> DecChars[((RefCodeValue(t) \div Pow(10, 6 - i)) % 10) + 1]]

(* Value of a string of decimal digits.                                    *)
RECURSIVE DecimalValue(_)
DecimalValue(s) ==
    IF s = <<>> THEN 0
    ELSE 10 * DecimalValue(SubSeq(s, 1, Len(s) - 1)) + DecVal(s[Len(s)])

RequestInputs(t) ==
    { t,
      RefCodeString(t),
      [RefCodeString(t) EXCEPT ![6] = DecChars[((DecVal(@) + 1) % 10) + 1]],
      ToDecimal(RefCodeValue(t)),
      SubSeq(t, 1, HEX_PREFIX),
      RemoveHyphens(t) }

InitTokenInputs ==
    /\ tok_pc = "input"
    /\ tok_in \in TokenInputs
    /\ req_in \in RequestInputs(tok_in)
    /\ code_out = <<>>
    /\ valid_out = FALSE

DeriveCode ==
    /\ tok_pc = "input"
    /\ code_out' = token_to_connect_code(tok_in)
    /\ tok_pc' = "derived"
    /\ UNCHANGED <<tok_in, req_in, valid_out>>

ValidateRequest ==
    /\ tok_pc = "derived"
    /\ valid_out' = validate_token(req_in, tok_in)
    /\ tok_pc' = "validated"
    /\ UNCHANGED <<tok_in, req_in, code_out>>

NextToken ==
    \/ DeriveCode /\ UNCHANGED <<serverVars, hostVars>>
    \/ ValidateRequest /\ UNCHANGED <<serverVars, hostVars>>

InitTok   == InitServer({<<OfferA, OfferB>>}, 0, 0) /\ InitTokenInputs
             /\ InitHost(NoBudget)
SpecToken == InitTok /\ [][NextToken]_vars

-----------------------------------------------------------------------------
(* Steps of the handler, read off a pair of states.                        *)

(* A request arrives (lines 106-130 run).                                  *)
ArrivalStep == wrong_left' + valid_left' # wrong_left + valid_left

(* The arriving request is turned away by the rate limiter: no handler     *)
(* goes on with it.                                                        *)
RejectedStep == ArrivalStep /\ req' = req

(* The IP of the arriving request.                                         *)
ArrivingIp ==
    IF req' = req THEN reply'.ip
    ELSE req'[CHOOSE h \in Handlers : req'[h] # req[h]].ip

(* Handler h validates the token of its request (lines 132-155 run).       *)
ValidateStep(h) == req[h].pc = "validate" /\ req'[h] # req[h]

(* Handler h returns 'Invalid authentication token'.                      *)
InvalidStep(h) == req[h].pc = "validate" /\ req'[h].pc = "idle"

(* Handler h runs the action of its request (lines 157-213).               *)
ActionStep(h) == req[h].pc \in {"dispatch", "store"} /\ req'[h] # req[h]

IsTooMany(response) ==
    /\ response.type = "Error"
    /\ Len(response.message) = 3
    /\ response.message[1] = "Too many failed attempts. Try again in "

IsInvalidToken(response) ==
    response.type = "Error" /\ response.message = InvalidTokenMessage

(* In the words of the rate limiter's contract, on the clock itself.       *)
HasRecord(ip)     == ip \in DOMAIN auth_failures
SinceLastFail(ip) == now - auth_failures[ip].last

-----------------------------------------------------------------------------
(* C1: after 5 failed validations from an IP, each less than 60 s after    *)
(* the one before, a request arriving from that IP less than 60 s after    *)
(* the last of them is answered 'Too many failed attempts' whatever token  *)
(* it carries, and is not executed: no handler goes on with it and the     *)
(* stories, received stories and events stay as they are.                  *)
C1_BlockedAfterFiveFailures ==
    [][ArrivalStep =>
          LET ip == ArrivingIp
          IN  (streak[ip].n >= 5 /\ now - streak[ip].last < BlockUnits) =>
                 /\ RejectedStep
                 /\ IsTooMany(reply'.resp)
                 /\ reply'.ip = ip
                 /\ UNCHANGED <<stories, received_stories, sync_events>>]_vars

(* A request carrying the connect code was turned away.                    *)
C1_Witness ==
    /\ IsTooMany(reply.resp)
    /\ reply.token = RefCodeString(token)
    /\ streak[reply.ip].n >= 5

(* C2: once the recorded count of an IP has reached 5, no request of that  *)
(* IP has its token validated until 60 s have passed since its last        *)
(* recorded failure, and no recorded count ever exceeds 5.                 *)
C2_NoValidationWhileBlocked ==
    [][/\ \A h \in Handlers :
             ValidateStep(h) =>
                ~(/\ HasRecord(req[h].ip)
                  /\ auth_failures[req[h].ip].count >= 5
                  /\ SinceLastFail(req[h].ip) < BlockUnits)
       /\ \A ip \in DOMAIN auth_failures' : auth_failures'[ip].count <= 5]_vars

(* C3: a successful validation removes the record of the requesting IP     *)
(* before the action runs, and no action, whatever its outcome, records a  *)
(* failure: the steps of the action leave the failure table as it is.      *)
C3_SuccessClearsRecord ==
    [][\A h \in Handlers :
          /\ (ValidateStep(h) /\ validate_token(req[h].token, token)) =>
                /\ req'[h].pc = "dispatch"
                /\ req[h].ip \notin DOMAIN auth_failures'
          /\ ActionStep(h) => auth_failures' = auth_failures]_vars

(* Every request has been answered, the one with the invalid token too;    *)
(* the last answer is 'Story not found' and no IP has a record.            *)
C3_Witness ==
    /\ wrong_left = 0
    /\ \A h \in Handlers : req[h].pc = "idle"
    /\ reply.resp.type = "Error"
    /\ reply.resp.message = NotFoundMessage("missing")
    /\ auth_failures = <<>>

(* C4: a request turned away by the rate limiter changes nothing; a        *)
(* request answered 'Invalid authentication token' changes the record of   *)
(* its own IP and nothing else.                                            *)
C4_RejectionsFrame ==
    [][/\ RejectedStep =>
             UNCHANGED <<auth_failures, stories, received_stories, sync_events>>
       /\ \A h \in Handlers :
             InvalidStep(h) =>
                /\ IsInvalidToken(reply'.resp)
                /\ \A ip \in IPs \ {req[h].ip} :
                      /\ HasRecord(ip) <=> ip \in DOMAIN auth_failures'
                      /\ HasRecord(ip) => auth_failures'[ip] = auth_failures[ip]
                /\ UNCHANGED <<stories, received_stories, sync_events>>]_vars

(* A request was turned away while both IPs have a record.                 *)
C4_Witness ==
    /\ IsTooMany(reply.resp)
    /\ DOMAIN auth_failures = IPs

(* C5: a request arriving 60 s or more after the last recorded failure of  *)
(* its IP passes the rate limiter, a request with a valid token that       *)
(* passed it is executed, and a request turned away leaves the failure     *)
(* table alone, so the block is not extended.                              *)
C5_BlockExpires ==
    [][/\ ArrivalStep =>
             LET ip == ArrivingIp
             IN  (HasRecord(ip) /\ SinceLastFail(ip) >= BlockUnits) =>
                    ~RejectedStep
       /\ RejectedStep => auth_failures' = auth_failures
       /\ \A h \in Handlers :
             (ValidateStep(h) /\ validate_token(req[h].token, token)) =>
                req'[h].pc = "dispatch"
       /\ \A h \in Handlers :
             ActionStep(h) =>
                reply'.resp.type \in {"StoriesList", "StoryData", "Success"}
                \/ req'[h].pc = "store"
                \/ reply'.resp.message = NotFoundMessage(reply'.action.arg)]_vars

(* A request with a valid token has passed the rate limiter although its   *)
(* IP still has 5 or more recorded failures, after an earlier request of   *)
(* that IP was turned away.                                                *)
C5_Witness ==
    \E h \in Handlers :
        /\ req[h].pc = "validate"
        /\ validate_token(req[h].token, token)
        /\ HasRecord(req[h].ip)
        /\ auth_failures[req[h].ip].count >= MAX_AUTH_FAILURES
        /\ SinceLastFail(req[h].ip) >= BlockUnits
        /\ IsTooMany(reply.resp)
        /\ reply.ip = req[h].ip

(* C6: a failed validation sets the count of its IP to 1 when the IP has   *)
(* no record or 60 s or more have passed since its last failure, to the    *)
(* previous count plus 1 otherwise, and the last-failure time to now.      *)
C6_FailureCount ==
    [][\A h \in Handlers :
          InvalidStep(h) =>
             LET ip == req[h].ip
             IN  /\ ip \in DOMAIN auth_failures'
                 /\ auth_failures'[ip].last = now
                 /\ auth_failures'[ip].count =
                       IF ~HasRecord(ip) \/ SinceLastFail(ip) >= BlockUnits
                       THEN 1
                       ELSE auth_failures[ip].count + 1]_vars

(* All six invalid requests came from one IP and were answered, and its    *)
(* count is 1 again: the sixth came a block after the fifth.               *)
C6_Witness ==
    /\ wrong_left = 0
    /\ valid_left = AuthValid
    /\ \A h \in Handlers : req[h].pc = "idle"
    /\ \E ip \in IPs :
          /\ DOMAIN auth_failures = {ip}
          /\ auth_failures[ip].count = 1
          /\ auth_failures[ip].last >= BlockUnits

(* C7: the connect code is six decimal digits whose value is the first 8   *)
(* hex characters of the token, read as a 32-bit number, modulo 10^6; and  *)
(* a request token is accepted exactly when it is the token or that code.  *)
C7_ConnectCode ==
    /\ tok_pc \in {"derived", "validated"} =>
          /\ Len(code_out) = 6
          /\ \A i \in 1..Len(code_out) : IsDecChar(code_out[i])
          /\ DecimalValue(code_out) = RefCodeValue(tok_in)
    /\ tok_pc = "validated" =>
          (valid_out <=> (req_in = tok_in \/ req_in = RefCodeString(tok_in)))

(* A code with a leading zero, of a token whose number is above 2^31, was  *)
(* accepted.                                                               *)
C7_Witness ==
    /\ tok_pc = "validated"
    /\ valid_out
    /\ req_in # tok_in
    /\ tok_in[1] = "f"
    /\ code_out[1] = "0"

-----------------------------------------------------------------------------
(* Handler h returns from the action named.                                *)
ReturnsFrom(h, type) ==
    /\ req[h].pc \in {"dispatch", "store"}
    /\ req'[h].pc = "idle"
    /\ reply'.action.type = type

PreviewFields == {"id", "title", "genre", "updated_at", "entry_count"}

(* The index of the first offer with the id, 0 when there is none.         *)
FirstOffer(id) ==
    LET hits == {i \in 1..Len(stories) : stories[i].preview.id = id}
    IN  IF hits = {} THEN 0
        ELSE CHOOSE i \in hits : \A j \in hits : i <= j

(* C8: ListStories returns one preview per offer, in the order of the      *)
(* offers and without any payload, and appends one 'connected' event that  *)
(* states the number of offers; offers and received stories stay as they   *)
(* are.                                                                    *)
C8_ListStories ==
    [][\A h \in Handlers :
          ReturnsFrom(h, "ListStories") =>
             /\ reply'.resp.type = "StoriesList"
             /\ reply'.resp.data = ""
             /\ Len(reply'.resp.stories) = Len(stories)
             /\ \A i \in 1..Len(stories) :
                   /\ reply'.resp.stories[i] = stories[i].preview
                   /\ DOMAIN reply'.resp.stories[i] = PreviewFields
             /\ Len(sync_events') = Len(sync_events) + 1
             /\ SubSeq(sync_events', 1, Len(sync_events)) = sync_events
             /\ sync_events'[Len(sync_events')].event_type = "connected"
             /\ sync_events'[Len(sync_events')].message[2] = ToString(Len(stories))
             /\ UNCHANGED <<stories, received_stories>>]_vars

(* The three offers, two of them with the same id, were listed.            *)
C8_Witness ==
    /\ reply.resp.type = "StoriesList"
    /\ Len(reply.resp.stories) = 3
    /\ reply.resp.stories[2].id = reply.resp.stories[3].id
    /\ reply.resp.stories[1].id # reply.resp.stories[2].id
    /\ sync_events # <<>>
    /\ sync_events[Len(sync_events)].event_type = "connected"

(* C9: PullStory returns the payload of the first offer with the id and    *)
(* appends one 'pulled' event naming its title; with no such offer it      *)
(* returns an error naming the id and appends no event.  Offers and        *)
(* received stories stay as they are.                                      *)
C9_PullStory ==
    [][\A h \in Handlers :
          ReturnsFrom(h, "PullStory") =>
             LET id == reply'.action.arg
                 i  == FirstOffer(id)
             IN  /\ i # 0 =>
                       /\ reply'.resp.type = "StoryData"
                       /\ reply'.resp.data = stories[i].full_data
                       /\ Len(sync_events') = Len(sync_events) + 1
                       /\ SubSeq(sync_events', 1, Len(sync_events)) = sync_events
                       /\ sync_events'[Len(sync_events')].event_type = "pulled"
                       /\ sync_events'[Len(sync_events')].message[2] =
                             stories[i].preview.title
                 /\ i = 0 =>
                       /\ reply'.resp.type = "Error"
                       /\ reply'.resp.message[Len(reply'.resp.message)] = id
                       /\ sync_events' = sync_events
                 /\ UNCHANGED <<stories, received_stories>>]_vars

(* An id that two offers share was pulled.                                 *)
C9_Witness ==
    /\ reply.resp.type = "StoryData"
    /\ Cardinality({i \in 1..Len(stories) :
                       stories[i].preview.id = reply.action.arg}) = 2
    /\ sync_events # <<>>
    /\ sync_events[Len(sync_events)].event_type = "pulled"

(* C10: PushStory appends one 'pushed' event and then its payload as the   *)
(* last received story, whatever is stored already, and returns success;   *)
(* nothing else changes the received stories, so n pushes add n entries in *)
(* the order of the pushes.                                                *)
C10_PushStory ==
    [][/\ \A h \in Handlers :
             /\ (req[h].pc = "dispatch" /\ req'[h].pc = "store") =>
                   /\ sync_events' = Append(sync_events, PushedEvent)
                   /\ UNCHANGED <<stories, received_stories>>
             /\ ReturnsFrom(h, "PushStory") =>
                   /\ req[h].pc = "store"
                   /\ received_stories' =
                         Append(received_stories, req[h].action.arg)
                   /\ reply'.resp.type = "Success"
                   /\ reply'.resp.message = ReceivedMessage
                   /\ UNCHANGED <<stories, sync_events>>
       /\ received_stories' # received_stories =>
             \E h \in Handlers : ReturnsFrom(h, "PushStory")]_vars

(* The same payload was pushed twice and is stored twice.                  *)
C10_Witness ==
    /\ reply.resp.type = "Success"
    /\ Len(received_stories) = 2
    /\ received_stories[1] = received_stories[2]
    /\ Len(SelectSeq(sync_events, LAMBDA e : e.event_type = "pushed")) = 2

-----------------------------------------------------------------------------
(* commands.rs: the session commands.  A command is a Tauri async command; *)
(* several may run at once.  Each action below is one stretch of a command *)
(* between two lock acquisitions.                                          *)
(*   start_sync_server: stop_state -> stop_broadcast -> bind ->            *)
(*                      store_handle -> store_state -> returns             *)
(*   stop_sync_server : stop_state -> stop_broadcast -> returns            *)
(* The other commands take their locks once and are one action each.       *)

(* Uuid::new_v4() of a second session.                                     *)
SessionToken2 ==
    <<"0","0","0","0","0","0","2","a","-","4","b","1","d","-","4","e","5","f",
      "-","8","a","2","c","-","0","1","2","3","4","5","6","7","8","9","a","b">>

TokenPool == {SessionToken, SessionToken2}

(* An export handed to start_sync_server: the JSON text, whether it parses *)
(* and what the parsed value holds.  Option values are sequences of length *)
(* 0 or 1.                                                                 *)
Export(text, valid, story, entries) ==
    [text |-> text, valid |-> valid, story |-> story, entries |-> entries]
StoryJson(id, title) == [id |-> id, title |-> title]

ExportA        == Export("json-alpha", TRUE, <<StoryJson(<<"a">>, <<"Alpha">>)>>, <<3>>)
ExportB        == Export("json-beta", TRUE, <<StoryJson(<<"b">>, <<"Beta">>)>>, <<>>)
ExportBare     == Export("json-bare", TRUE, <<StoryJson(<<>>, <<>>)>>, <<>>)
ExportNoStory  == Export("json-nostory", TRUE, <<>>, <<1>>)
ExportBad      == Export("not json", FALSE, <<>>, <<>>)

StoriesJson ==
    { None, Some(<<ExportB, ExportBad, ExportA>>), Some(<<ExportNoStory, ExportBare>>) }

(* lines 68-102: Err for text that is not JSON or has no 'story'; missing  *)
(* fields take their defaults.                                             *)
parse_story_preview(json) ==
    IF ~json.valid \/ json.story = <<>>
    THEN [ok |-> FALSE, preview |-> Preview("", "", 0)]
    ELSE [ok |-> TRUE,
          preview |->
             Preview(IF json.story[1].id = <<>> THEN "" ELSE json.story[1].id[1],
                     IF json.story[1].title = <<>> THEN "Untitled"
                                                   ELSE json.story[1].title[1],
                     IF json.entries = <<>> THEN 0 ELSE json.entries[1])]

(* server.rs 44-54                                                         *)
ServerState_new(tok) ==
    [token |-> tok, stories |-> <<>>, received_stories |-> <<>>,
     sync_events |-> <<>>, auth_failures |-> <<>>]

(* A variant that offers the exports that do not parse as well.            *)
RECURSIVE LoadStories_KeepInvalid(_, _)
LoadStories_KeepInvalid(offers, exports) ==
    IF exports = <<>> THEN offers
    ELSE LoadStories_KeepInvalid(
             Append(offers, [preview |-> parse_story_preview(Head(exports)).preview,
                             full_data |-> Head(exports).text]),
             Tail(exports))

(* lines 148-163: the exports that parse are pushed in order, the others   *)
(* are skipped.                                                            *)
RECURSIVE LoadStories(_, _)
LoadStories(offers, exports) ==
    IF exports = <<>> THEN offers
    ELSE LET p == parse_story_preview(Head(exports))
         IN  LoadStories(IF p.ok
                         THEN Append(offers, [preview |-> p.preview,
                                              full_data |-> Head(exports).text])
                         ELSE offers,
                         Tail(exports))

(* A spawned task: an HTTP listener with the store of its router, a        *)
(* responder with its response, or a requester.                            *)
NoData == [app |-> "", ip |-> "", port |-> 0, version |-> "", device_name |-> ""]
Task(kind, sid, data) ==
    [kind |-> kind, status |-> "running", sid |-> sid, data |-> data,
     json |-> <<>>, broadcast_targets |-> <<>>, probed |-> <<>>, pc |-> "start",
     dgram |-> <<>>]

(* A variant that takes the handle out of the slot and drops it.           *)
Abort_Forget(ts, t) == ts

(* JoinHandle::abort on the handle taken from a slot: a signal; the task   *)
(* ends when it next yields.                                               *)
Abort(ts, t) ==
    IF t = 0 THEN ts
    ELSE [ts EXCEPT ![t].status = IF @ = "running" THEN "aborted" ELSE @]

(* A command returns.                                                      *)
CmdReturn(c, op, ok, value) ==
    /\ cmd' = [cmd EXCEPT ![c] = IdleCmd]
    /\ cmd_result' = [op |-> op, ok |-> ok, value |-> value]

Spend(op) == budget[op] > 0 /\ budget' = [budget EXCEPT ![op] = @ - 1]

(* lines 217-220: the server_handle mutex is taken, and kept until         *)
(* stop_sync_server returns; the handle is taken out and aborted.          *)
StopTakeHandle(c, op, arg) ==
    /\ cmd[c].pc = "idle"
    /\ handle_owner = 0
    /\ Spend(op)
    /\ handle_owner' = c
    /\ tasks' = Abort(tasks, server_handle)
    /\ server_handle' = 0
    /\ cmd' = [cmd EXCEPT ![c] = [IdleCmd EXCEPT !.op = op, !.pc = "stop_state",
                                                 !.arg = arg]]
    /\ UNCHANGED <<server_state, broadcast_handle, discovery_handle,
                   discovered_devices, store, cmd_result, hreq, hreply,
                   tcp_port, udp_port, udp_sent, drains, appended>>

(* lines 133-139: start_sync_server begins with stop_sync_server.          *)
start_sync_server(c, stories_json) ==
    StopTakeHandle(c, "start_sync_server", stories_json)

(* lines 215-220                                                           *)
stop_sync_server(c) == StopTakeHandle(c, "stop_sync_server", None)

(* line 221: *state.server_state.lock().await = None                       *)
StopClearState(c) ==
    /\ cmd[c].pc = "stop_state"
    /\ server_state' = 0
    /\ cmd' = [cmd EXCEPT ![c].pc = "stop_broadcast"]
    /\ UNCHANGED <<server_handle, broadcast_handle, discovery_handle,
                   discovered_devices, handle_owner, tasks, store, cmd_result,
                   hreq, hreply, tcp_port, udp_port, udp_sent, budget, drains,
                   appended>>

(* lines 223-229: the responder is taken out and aborted, both mutexes are *)
(* released; stop_sync_server returns, start_sync_server goes on.          *)
StopBroadcast(c) ==
    /\ cmd[c].pc = "stop_broadcast"
    /\ tasks' = Abort(tasks, broadcast_handle)
    /\ broadcast_handle' = 0
    /\ handle_owner' = 0
    /\ IF cmd[c].op = "stop_sync_server"
       THEN CmdReturn(c, "stop_sync_server", TRUE, <<>>)
       ELSE cmd' = [cmd EXCEPT ![c].pc = "bind"] /\ UNCHANGED cmd_result
    /\ UNCHANGED <<server_handle, server_state, discovery_handle,
                   discovered_devices, store, hreq, hreply, tcp_port, udp_port,
                   udp_sent, budget, drains, appended>>

(* lines 141-198: a token is generated, the store is created and loaded,   *)
(* SYNC_PORT is bound and the listener task is spawned.  The command       *)
(* returns Err when the port is taken (167-172) or when the address, the   *)
(* local IP or the QR code cannot be had (174-194); the listener and the   *)
(* store are dropped then.                                                 *)
StartBind(c, tok, env_ok) ==
    /\ cmd[c].pc = "bind"
    /\ LET fresh  == ServerState_new(tok)
           loaded == [fresh EXCEPT !.stories =
                        IF cmd[c].arg.some THEN LoadStories(@, cmd[c].arg.list)
                                           ELSE @]
       IN  IF tcp_port # 0 \/ ~env_ok
           THEN /\ CmdReturn(c, "start_sync_server", FALSE, <<>>)
                /\ UNCHANGED <<tasks, store, tcp_port, appended>>
           ELSE /\ store' = Append(store, loaded)
                /\ appended' = Append(appended, <<>>)
                /\ tasks' = Append(tasks, Task("http", Len(store) + 1, NoData))
                /\ tcp_port' = Len(tasks) + 1
                /\ cmd' = [cmd EXCEPT ![c].pc = "store_handle",
                                      ![c].sid = Len(store) + 1,
                                      ![c].task = Len(tasks) + 1]
                /\ UNCHANGED cmd_result
    /\ UNCHANGED <<server_handle, server_state, broadcast_handle,
                   discovery_handle, discovered_devices, handle_owner, hreq,
                   hreply, udp_port, udp_sent, budget, drains>>

(* line 201: *state.server_handle.lock().await = Some(handle)              *)
StoreHandle(c) ==
    /\ cmd[c].pc = "store_handle"
    /\ handle_owner = 0
    /\ server_handle' = cmd[c].task
    /\ cmd' = [cmd EXCEPT ![c].pc = "store_state"]
    /\ UNCHANGED <<server_state, broadcast_handle, discovery_handle,
                   discovered_devices, handle_owner, tasks, store, cmd_result,
                   hreq, hreply, tcp_port, udp_port, udp_sent, budget, drains,
                   appended>>

(* lines 202-210: the store is registered and the command returns the      *)
(* token and its connect code.                                             *)
StoreState(c) ==
    /\ cmd[c].pc = "store_state"
    /\ server_state' = cmd[c].sid
    /\ CmdReturn(c, "start_sync_server", TRUE,
                 <<store[cmd[c].sid].token,
                   token_to_connect_code(store[cmd[c].sid].token)>>)
    /\ UNCHANGED <<server_handle, broadcast_handle, discovery_handle,
                   discovered_devices, handle_owner, tasks, store, hreq, hreply,
                   tcp_port, udp_port, udp_sent, budget, drains, appended>>

(* An aborted task that is suspended at an await is dropped, with the      *)
(* sockets it owns.  A requester that holds a datagram awaits the mutex of *)
(* the device list (server.rs:395), which suspends it when a command holds *)
(* the mutex.                                                              *)
TaskDrop(t) ==
    /\ t \in 1..Len(tasks)
    /\ tasks[t].status = "aborted"
    /\ tasks[t].pc # "got" \/ tasks[t].kind = "requester"
    /\ tasks' = [tasks EXCEPT ![t].status = "dead"]
    /\ tcp_port' = IF tcp_port = t THEN 0 ELSE tcp_port
    /\ udp_port' = IF udp_port = t THEN 0 ELSE udp_port
    /\ UNCHANGED <<server_handle, server_state, broadcast_handle,
                   discovery_handle, discovered_devices, handle_owner, store,
                   cmd, cmd_result, hreq, hreply, udp_sent, budget, drains,
                   appended>>

-----------------------------------------------------------------------------
(* server.rs: handle_sync on the store of its session.  The router of a    *)
(* listener holds a clone of the ServerState it was built with (commands   *)
(* line 197), so a handler works on the store of the listener that took    *)
(* its connection, also after that store has been unregistered.  The steps *)
(* are those of RateLimitCheck .. PushStoryStore above.                    *)

HostReturn(h, action, response) ==
    /\ hreq' = [hreq EXCEPT ![h] = IdleHandler]
    /\ hreply' = [sid |-> hreq[h].sid, action |-> action, resp |-> response]

(* A variant that puts the event in front of the log.                      *)
LogEvent_Front(sid, e) ==
    /\ store' = [store EXCEPT ![sid].sync_events = <<e>> \o @]
    /\ appended' = [appended EXCEPT ![sid] = Append(@, e)]

(* A variant that uses up the offers as it logs.                          *)
LogEvent_DropOffers(sid, e) ==
    /\ store' = [store EXCEPT ![sid].sync_events = Append(@, e),
                              ![sid].stories = <<>>]
    /\ appended' = [appended EXCEPT ![sid] = Append(@, e)]

(* lines 166-171, 188-193, 201-206: an event is pushed into the log of the *)
(* store.                                                                  *)
LogEvent(sid, e) ==
    /\ store' = [store EXCEPT ![sid].sync_events = Append(@, e)]
    /\ appended' = [appended EXCEPT ![sid] = Append(@, e)]

(* lines 106-130                                                           *)
SessRateLimitCheck(h, t, ip, tok) ==
    /\ hreq[h].pc = "idle"
    /\ t \in 1..Len(tasks)
    /\ tasks[t].kind = "http"
    /\ tasks[t].status # "dead"
    /\ LET sid == tasks[t].sid
       IN  /\ IF validate_token(tok, store[sid].token) THEN Spend("valid")
                                                       ELSE Spend("wrong")
           /\ IF IsBlocked(store[sid].auth_failures, ip, now)
              THEN /\ hreply' =
                        [sid |-> sid, action |-> SyncAction(NoValue, ""),
                         resp |-> ErrorResponse(
                                    TooManyMessage(store[sid].auth_failures, ip, now))]
                   /\ UNCHANGED hreq
              ELSE /\ hreq' = [hreq EXCEPT ![h] =
                                 [IdleHandler EXCEPT !.pc = "validate", !.sid = sid,
                                                     !.ip = ip, !.token = tok]]
                   /\ UNCHANGED hreply
    /\ UNCHANGED <<server_handle, server_state, broadcast_handle,
                   discovery_handle, discovered_devices, handle_owner, tasks,
                   store, cmd, cmd_result, tcp_port, udp_port, udp_sent, drains,
                   appended>>

(* lines 132-155                                                           *)
SessValidateToken(h) ==
    /\ hreq[h].pc = "validate"
    /\ LET sid == hreq[h].sid
       IN  IF ~validate_token(hreq[h].token, store[sid].token)
           THEN /\ store' = [store EXCEPT ![sid].auth_failures =
                                RecordFailure(@, hreq[h].ip, now)]
                /\ HostReturn(h, hreq[h].action, ErrorResponse(InvalidTokenMessage))
           ELSE /\ store' = [store EXCEPT ![sid].auth_failures =
                                ClearFailures(@, hreq[h].ip)]
                /\ hreq' = [hreq EXCEPT ![h].pc = "dispatch"]
                /\ UNCHANGED hreply
    /\ UNCHANGED <<server_handle, server_state, broadcast_handle,
                   discovery_handle, discovered_devices, handle_owner, tasks,
                   cmd, cmd_result, tcp_port, udp_port, udp_sent, budget, drains,
                   appended>>

(* lines 158-174                                                           *)
SessListStories(h) ==
    /\ hreq[h].pc = "dispatch"
    /\ LET previews == Previews(store[hreq[h].sid].stories)
       IN  /\ LogEvent(hreq[h].sid, ConnectedEvent(Len(previews)))
           /\ HostReturn(h, SyncAction("ListStories", ""),
                         StoriesListResponse(previews))
    /\ UNCHANGED <<server_handle, server_state, broadcast_handle,
                   discovery_handle, discovered_devices, handle_owner, tasks,
                   cmd, cmd_result, tcp_port, udp_port, udp_sent, budget, drains>>

(* lines 175-197                                                           *)
SessPullStory(h, story_id) ==
    /\ hreq[h].pc = "dispatch"
    /\ LET offers == store[hreq[h].sid].stories
           i      == FindStory(offers, story_id)
       IN  IF i # 0
           THEN /\ LogEvent(hreq[h].sid, PulledEvent(offers[i].preview.title))
                /\ HostReturn(h, SyncAction("PullStory", story_id),
                              StoryDataResponse(offers[i].full_data))
           ELSE /\ HostReturn(h, SyncAction("PullStory", story_id),
                              ErrorResponse(NotFoundMessage(story_id)))
                /\ UNCHANGED <<store, appended>>
    /\ UNCHANGED <<server_handle, server_state, broadcast_handle,
                   discovery_handle, discovered_devices, handle_owner, tasks,
                   cmd, cmd_result, tcp_port, udp_port, udp_sent, budget, drains>>

(* lines 198-206                                                           *)
SessPushStoryEvent(h, story_data) ==
    /\ hreq[h].pc = "dispatch"
    /\ LogEvent(hreq[h].sid, PushedEvent)
    /\ hreq' = [hreq EXCEPT ![h].pc = "store",
                            ![h].action = SyncAction("PushStory", story_data)]
    /\ UNCHANGED <<server_handle, server_state, broadcast_handle,
                   discovery_handle, discovered_devices, handle_owner, tasks,
                   cmd, cmd_result, hreply, tcp_port, udp_port, udp_sent, budget,
                   drains>>

(* lines 208-213                                                           *)
SessPushStoryStore(h) ==
    /\ hreq[h].pc = "store"
    /\ store' = [store EXCEPT ![hreq[h].sid].received_stories =
                    PushReceived(@, hreq[h].action.arg)]
    /\ HostReturn(h, hreq[h].action, SuccessResponse(ReceivedMessage))
    /\ UNCHANGED <<server_handle, server_state, broadcast_handle,
                   discovery_handle, discovered_devices, handle_owner, tasks,
                   cmd, cmd_result, tcp_port, udp_port, udp_sent, budget, drains,
                   appended>>

-----------------------------------------------------------------------------
(* commands.rs: the polls of the UI.  Each holds the server_state mutex    *)
(* and, inside it, the mutex of one collection: one action each.           *)

PollReturn(op, value) == cmd_result' = [op |-> op, ok |-> TRUE, value |-> value]

(* A variant that returns the events and leaves them in the log.           *)
Drain_Clone(events) == [out |-> events, rest |-> events]

(* line 266: events.drain(..).collect()                                    *)
Drain(events) == [out |-> events, rest |-> <<>>]

(* lines 262-271                                                           *)
get_sync_events ==
    /\ Spend("get_sync_events")
    /\ IF server_state # 0
       THEN LET d == Drain(store[server_state].sync_events)
            IN  /\ store' = [store EXCEPT ![server_state].sync_events = d.rest]
                /\ drains' = Append(drains, [sid |-> server_state, events |-> d.out,
                                              total |-> Len(appended[server_state])])
                /\ PollReturn("get_sync_events", d.out)
       ELSE /\ drains' = Append(drains, [sid |-> 0, events |-> <<>>, total |-> 0])
            /\ PollReturn("get_sync_events", <<>>)
            /\ UNCHANGED store
    /\ UNCHANGED <<server_handle, server_state, broadcast_handle,
                   discovery_handle, discovered_devices, handle_owner, tasks,
                   cmd, hreq, hreply, tcp_port, udp_port, udp_sent, appended>>

(* lines 234-242                                                           *)
get_received_stories ==
    /\ Spend("get_received_stories")
    /\ PollReturn("get_received_stories",
                  IF server_state # 0 THEN store[server_state].received_stories
                                      ELSE <<>>)
    /\ UNCHANGED <<server_handle, server_state, broadcast_handle,
                   discovery_handle, discovered_devices, handle_owner, tasks,
                   store, cmd, hreq, hreply, tcp_port, udp_port, udp_sent,
                   drains, appended>>

(* lines 246-253                                                           *)
clear_received_stories ==
    /\ Spend("clear_received_stories")
    /\ store' = IF server_state # 0
                THEN [store EXCEPT ![server_state].received_stories = <<>>]
                ELSE store
    /\ PollReturn("clear_received_stories", <<>>)
    /\ UNCHANGED <<server_handle, server_state, broadcast_handle,
                   discovery_handle, discovered_devices, handle_owner, tasks,
                   cmd, hreq, hreply, tcp_port, udp_port, udp_sent, drains,
                   appended>>

-----------------------------------------------------------------------------
(* types.rs, server.rs: the discovery datagrams.  A probe is a sequence of *)
(* characters.  A reply is JSON text, kept as the sequence of its lexemes: *)
(* the braces and one lexeme per member, with the member's name, the JSON  *)
(* type of its value and the value (a string v or a number n).             *)

SYNC_PORT      == 55555
DISCOVERY_PORT == 55556
APP_IDENTIFIER == "aventuras"
RESPONDER_BUF  == 256
REQUESTER_BUF  == 4096

DISCOVERY_REQUEST ==
    <<"A","V","E","N","T","U","R","A","S","_","D","I","S","C","O","V","E","R">>

Lexeme(k, t, v, n) == [k |-> k, t |-> t, v |-> v, n |-> n]
OpenBrace  == Lexeme("{", "punct", "", 0)
CloseBrace == Lexeme("}", "punct", "", 0)
Str(k, v)  == Lexeme(k, "str", v, 0)
Num(k, n)  == Lexeme(k, "num", "", n)
U16_MAX    == 65535

(* commands.rs 307-313: the members of the response, as the struct literal *)
(* names them.  (The struct of types.rs 80-93 declares a sixth member,     *)
(* token, that neither this literal nor server.rs has.)                    *)
DiscoveryBroadcast(app, ip, port, version, device_name) ==
    [app |-> app, ip |-> ip, port |-> port, version |-> version,
     device_name |-> device_name]

(* serde_json::to_string of a DiscoveryBroadcast (rename_all = camelCase). *)
to_string(d) ==
    << OpenBrace,
       Str("app", d.app),
       Str("ip", d.ip),
       Num("port", d.port),
       Str("version", d.version),
       Str("deviceName", d.device_name),
       CloseBrace >>

(* The members serde requires, with their JSON types.                      *)
BroadcastMembers ==
    { <<"app", "str">>, <<"ip", "str">>, <<"port", "num">>,
      <<"version", "str">>, <<"deviceName", "str">> }

Member(text, k) == text[CHOOSE i \in 1..Len(text) : text[i].k = k]

(* serde_json::from_slice::<DiscoveryBroadcast>: the text must be one      *)
(* complete object; each member of the struct must be there once, with a   *)
(* value of its type; members the struct does not have are skipped.        *)
from_slice(text) ==
    LET n  == Len(text)
        ok == /\ n >= 2
              /\ text[1] = OpenBrace
              /\ text[n] = CloseBrace
              /\ \A i \in 2..(n - 1) : text[i].t # "punct"
              /\ \A m \in BroadcastMembers :
                    /\ Cardinality({i \in 2..(n - 1) : text[i].k = m[1]}) = 1
                    /\ Member(text, m[1]).t = m[2]
              /\ Member(text, "port").n \in 0..U16_MAX
    IN  IF ok
        THEN [ok |-> TRUE,
              value |-> DiscoveryBroadcast(Member(text, "app").v,
                                           Member(text, "ip").v,
                                           Member(text, "port").n,
                                           Member(text, "version").v,
                                           Member(text, "deviceName").v)]
        ELSE [ok |-> FALSE, value |-> DiscoveryBroadcast("", "", 0, "", "")]

(* recv_from into a buffer of cap bytes: what does not fit is cut off.     *)
recv_from(bytes, cap) ==
    IF Len(bytes) > cap THEN SubSeq(bytes, 1, cap) ELSE bytes

(* A variant that compares as many bytes as the datagram has.              *)
IsDiscoveryRequest_NoLength(bytes) ==
    LET n == IF Len(bytes) < Len(DISCOVERY_REQUEST) THEN Len(bytes)
                                                    ELSE Len(DISCOVERY_REQUEST)
    IN  SubSeq(bytes, 1, n) = SubSeq(DISCOVERY_REQUEST, 1, n)

(* server.rs 277-278                                                       *)
IsDiscoveryRequest(bytes) ==
    /\ Len(bytes) >= Len(DISCOVERY_REQUEST)
    /\ SubSeq(bytes, 1, Len(DISCOVERY_REQUEST)) = DISCOVERY_REQUEST

(* server.rs 416-448                                                       *)
get_device_name(target_os) ==
    CASE target_os = "android" -> "Android Device"
      [] target_os = "ios"     -> "iOS Device"
      [] target_os = "windows" -> "Windows PC"
      [] target_os = "linux"   -> "Linux PC"
      [] target_os = "macos"   -> "Mac"
      [] OTHER                 -> "Unknown Device"

(* A variant that reads the registered session and sends the low 16 bits  *)
(* of the first group of its token as the port.                            *)
response_data_WithToken(stores, registered, ip, port, version, target_os) ==
    DiscoveryBroadcast(APP_IDENTIFIER, ip,
                       IF registered = 0 THEN port
                       ELSE from_str_radix_16(
                               SubSeq(RemoveHyphens(stores[registered].token),
                                      1, HEX_PREFIX)).lo,
                       version, get_device_name(target_os))

(* commands.rs 305-313; the command has the SyncState at hand and does not *)
(* read the session from it.                                               *)
response_data(stores, registered, ip, port, version, target_os) ==
    DiscoveryBroadcast(APP_IDENTIFIER, ip, port, version,
                       get_device_name(target_os))

(* server.rs 389-394                                                       *)
DiscoveredDevice(broadcast) ==
    [ip |-> broadcast.ip, port |-> broadcast.port, version |-> broadcast.version,
     device_name |-> broadcast.device_name]

(* A variant that admits every reply that parses.                          *)
Admit_AnyApp(parsed) == parsed.ok

(* server.rs 385-388                                                       *)
Admit(parsed) == parsed.ok /\ parsed.value.app = APP_IDENTIFIER

(* A variant that always pushes.                                           *)
Upsert_Push(list, device) == Append(list, device)

(* server.rs 395-402: the first entry with the IP is replaced in place, or *)
(* the device is pushed.                                                   *)
Upsert(list, device) ==
    IF \E i \in 1..Len(list) : list[i].ip = device.ip
    THEN LET i == CHOOSE i \in 1..Len(list) :
                     /\ list[i].ip = device.ip
                     /\ \A j \in 1..(i - 1) : list[j].ip # device.ip
         IN  [list EXCEPT ![i] = device]
    ELSE Append(list, device)


(* u8 | u8, bit by bit.                                                    *)
RECURSIVE BitOr(_, _, _)
BitOr(a, b, bits) ==
    IF bits = 0 THEN 0
    ELSE 2 * BitOr(a \div 2, b \div 2, bits - 1)
         + (IF a % 2 = 1 \/ b % 2 = 1 THEN 1 ELSE 0)

OCTET_BITS == 8
OCTET_MAX  == 255

(* A variant that leaves the netmask as it is.                             *)
BitNot_Keep(a) == a

(* !u8                                                                     *)
BitNot(a) == OCTET_MAX - a

(* format!("{}:{}", Ipv4Addr, port)                                        *)
FormatTarget(octets, port) ==
    ToDecimal(octets[1]) \o <<".">> \o ToDecimal(octets[2]) \o <<".">>
    \o ToDecimal(octets[3]) \o <<".">> \o ToDecimal(octets[4]) \o <<":">>
    \o ToDecimal(port)

Contains(list, x) == \E i \in 1..Len(list) : list[i] = x

(* A variant that pushes every address it computes.                        *)
RECURSIVE SubnetTargets_NoDedup(_, _)
SubnetTargets_NoDedup(interfaces, targets) ==
    IF interfaces = <<>> THEN targets
    ELSE LET iface == Head(interfaces)
             broadcast == [k \in 1..4 |->
                             BitOr(iface.ip[k], BitNot(iface.netmask[k]), OCTET_BITS)]
         IN  SubnetTargets_NoDedup(Tail(interfaces),
                 IF iface.loopback \/ ~iface.v4 THEN targets
                 ELSE Append(targets, FormatTarget(broadcast, DISCOVERY_PORT)))

(* server.rs 308-327: the loop over the interfaces.                        *)
RECURSIVE SubnetTargets(_, _)
SubnetTargets(interfaces, targets) ==
    IF interfaces = <<>> THEN targets
    ELSE LET iface == Head(interfaces)
             broadcast == [k \in 1..4 |->
                             BitOr(iface.ip[k], BitNot(iface.netmask[k]), OCTET_BITS)]
             target == FormatTarget(broadcast, DISCOVERY_PORT)
         IN  SubnetTargets(Tail(interfaces),
                 IF iface.loopback \/ ~iface.v4 \/ Contains(targets, target)
                 THEN targets
                 ELSE Append(targets, target))

(* server.rs 303-338                                                       *)
compute_broadcast_targets(result) ==
    LET targets  == IF result.ok THEN SubnetTargets(result.list, <<>>) ELSE <<>>
        fallback == <<"2","5","5",".","2","5","5",".","2","5","5",".","2","5","5",":">>
                    \o ToDecimal(DISCOVERY_PORT)
    IN  IF Contains(targets, fallback) THEN targets ELSE Append(targets, fallback)
-----------------------------------------------------------------------------
(* commands.rs: the discovery commands.  Each takes the mutex of its       *)
(* handle once and holds it to the end: one action each.                   *)

(* lines 293-319                                                           *)
start_udp_broadcast(ip, port, version, target_os) ==
    /\ Spend("start_udp_broadcast")
    /\ tasks' = Append(Abort(tasks, broadcast_handle),
                       Task("responder", 0,
                            response_data(store, server_state, ip, port, version,
                                          target_os)))
    /\ broadcast_handle' = Len(tasks) + 1
    /\ cmd_result' = [op |-> "start_udp_broadcast", ok |-> TRUE, value |-> <<>>]
    /\ UNCHANGED <<server_handle, server_state, discovery_handle,
                   discovered_devices, handle_owner, store, cmd, hreq, hreply,
                   tcp_port, udp_port, udp_sent, drains, appended>>

(* lines 323-329                                                           *)
stop_udp_broadcast ==
    /\ Spend("stop_udp_broadcast")
    /\ tasks' = Abort(tasks, broadcast_handle)
    /\ broadcast_handle' = 0
    /\ cmd_result' = [op |-> "stop_udp_broadcast", ok |-> TRUE, value |-> <<>>]
    /\ UNCHANGED <<server_handle, server_state, discovery_handle,
                   discovered_devices, handle_owner, store, cmd, hreq, hreply,
                   tcp_port, udp_port, udp_sent, drains, appended>>

(* lines 334-352                                                           *)
start_discovery ==
    /\ Spend("start_discovery")
    /\ tasks' = Append(Abort(tasks, discovery_handle), Task("requester", 0, NoData))
    /\ discovered_devices' = <<>>
    /\ discovery_handle' = Len(tasks) + 1
    /\ cmd_result' = [op |-> "start_discovery", ok |-> TRUE, value |-> <<>>]
    /\ UNCHANGED <<server_handle, server_state, broadcast_handle, handle_owner,
                   store, cmd, hreq, hreply, tcp_port, udp_port, udp_sent,
                   drains, appended>>

(* lines 356-365                                                           *)
stop_discovery ==
    /\ Spend("stop_discovery")
    /\ tasks' = Abort(tasks, discovery_handle)
    /\ discovery_handle' = 0
    /\ discovered_devices' = <<>>
    /\ cmd_result' = [op |-> "stop_discovery", ok |-> TRUE, value |-> <<>>]
    /\ UNCHANGED <<server_handle, server_state, broadcast_handle, handle_owner,
                   store, cmd, hreq, hreply, tcp_port, udp_port, udp_sent,
                   drains, appended>>

-----------------------------------------------------------------------------
(* server.rs: the discovery tasks.  The pc of a task is the await it is    *)
(* suspended at ("start": not polled yet; "recv", "backoff", "collect",    *)
(* "sleep"), "got": it has a datagram in its buffer and is running, or     *)
(* "send": it is in the loop of line 370, whose send_to is ready at once   *)
(* or suspends it.  A task that was aborted while suspended never runs     *)
(* again; one that was aborted while running goes on to its next await.    *)

(* lines 236-270: the socket is bound to DISCOVERY_PORT and the response   *)
(* is serialized; the task ends when either fails.                         *)
ResponderBind(t, env_ok) ==
    /\ t \in 1..Len(tasks)
    /\ tasks[t].kind = "responder"
    /\ tasks[t].status = "running"
    /\ tasks[t].pc = "start"
    /\ IF udp_port # 0 \/ ~env_ok
       THEN /\ tasks' = [tasks EXCEPT ![t].status = "dead"]
            /\ UNCHANGED udp_port
       ELSE /\ tasks' = [tasks EXCEPT ![t].pc = "recv",
                                      ![t].json = to_string(tasks[t].data)]
            /\ udp_port' = t
    /\ UNCHANGED <<server_handle, server_state, broadcast_handle,
                   discovery_handle, discovered_devices, handle_owner, store,
                   cmd, cmd_result, hreq, hreply, tcp_port, udp_sent, budget,
                   drains, appended>>

(* line 274: a datagram arrives from src_addr.                             *)
ResponderRecv(t, bytes, src_addr) ==
    /\ t \in 1..Len(tasks)
    /\ tasks[t].kind = "responder"
    /\ tasks[t].status = "running"
    /\ tasks[t].pc = "recv"
    /\ Spend("datagram")
    /\ tasks' = [tasks EXCEPT ![t].pc = "got",
                              ![t].dgram = <<[bytes |-> recv_from(bytes, RESPONDER_BUF),
                                              src_addr |-> src_addr]>>]
    /\ UNCHANGED <<server_handle, server_state, broadcast_handle,
                   discovery_handle, discovered_devices, handle_owner, store,
                   cmd, cmd_result, hreq, hreply, tcp_port, udp_port, udp_sent,
                   drains, appended>>

(* lines 275-287: a discovery request is answered to its sender.           *)
ResponderReply(t) ==
    /\ t \in 1..Len(tasks)
    /\ tasks[t].kind = "responder"
    /\ tasks[t].status # "dead"
    /\ tasks[t].pc = "got"
    /\ udp_sent' = IF IsDiscoveryRequest(tasks[t].dgram[1].bytes)
                   THEN Append(udp_sent, [by |-> t, to |-> tasks[t].dgram[1].src_addr,
                                          bytes |-> tasks[t].json])
                   ELSE udp_sent
    /\ tasks' = [tasks EXCEPT ![t].pc = "recv", ![t].dgram = <<>>]
    /\ UNCHANGED <<server_handle, server_state, broadcast_handle,
                   discovery_handle, discovered_devices, handle_owner, store,
                   cmd, cmd_result, hreq, hreply, tcp_port, udp_port, budget,
                   drains, appended>>

(* lines 288-291: recv_from fails; the task sleeps 100 ms.                 *)
ResponderRecvError(t) ==
    /\ t \in 1..Len(tasks)
    /\ tasks[t].kind = "responder"
    /\ tasks[t].status = "running"
    /\ tasks[t].pc = "recv"
    /\ tasks' = [tasks EXCEPT ![t].pc = "backoff"]
    /\ UNCHANGED <<server_handle, server_state, broadcast_handle,
                   discovery_handle, discovered_devices, handle_owner, store,
                   cmd, cmd_result, hreq, hreply, tcp_port, udp_port, udp_sent,
                   budget, drains, appended>>

(* lines 273, 290: the sleep ends and the task listens again.              *)
ResponderResume(t) ==
    /\ t \in 1..Len(tasks)
    /\ tasks[t].kind = "responder"
    /\ tasks[t].status = "running"
    /\ tasks[t].pc = "backoff"
    /\ tasks' = [tasks EXCEPT ![t].pc = "recv"]
    /\ UNCHANGED <<server_handle, server_state, broadcast_handle,
                   discovery_handle, discovered_devices, handle_owner, store,
                   cmd, cmd_result, hreq, hreply, tcp_port, udp_port, udp_sent,
                   budget, drains, appended>>

(* A variant of the window's end that returns from the task.               *)
RequesterWindowEnds_Return(t) ==
    /\ t \in 1..Len(tasks)
    /\ tasks[t].kind = "requester"
    /\ tasks[t].status = "running"
    /\ tasks[t].pc = "collect"
    /\ tasks' = [tasks EXCEPT ![t].status = "dead"]
    /\ UNCHANGED <<server_handle, server_state, broadcast_handle,
                   discovery_handle, discovered_devices, handle_owner, store,
                   cmd, cmd_result, hreq, hreply, tcp_port, udp_port, udp_sent,
                   budget, drains, appended>>

(* lines 346-364: the socket is bound to a free port; the task ends when   *)
(* that or set_broadcast fails; the targets are computed.                  *)
RequesterBind(t, env_ok) ==
    /\ t \in 1..Len(tasks)
    /\ tasks[t].kind = "requester"
    /\ tasks[t].status = "running"
    /\ tasks[t].pc = "start"
    /\ tasks' = IF env_ok
                THEN [tasks EXCEPT ![t].pc = "send",
                                   ![t].broadcast_targets =
                                       compute_broadcast_targets(if_addrs)]
                ELSE [tasks EXCEPT ![t].status = "dead"]
    /\ UNCHANGED <<server_handle, server_state, broadcast_handle,
                   discovery_handle, discovered_devices, handle_owner, store,
                   cmd, cmd_result, hreq, hreply, tcp_port, udp_port, udp_sent,
                   budget, drains, appended>>

(* lines 370-372: the probe goes to the next target of the list; after the *)
(* last one the window of line 375 opens.                                  *)
RequesterProbe(t) ==
    /\ t \in 1..Len(tasks)
    /\ tasks[t].kind = "requester"
    /\ tasks[t].status # "dead"
    /\ tasks[t].pc = "send"
    /\ LET target == tasks[t].broadcast_targets[Len(tasks[t].probed) + 1]
           last   == Len(tasks[t].probed) + 1 = Len(tasks[t].broadcast_targets)
       IN  tasks' = [tasks EXCEPT ![t].probed = Append(@, target),
                                  ![t].pc = IF last THEN "collect" ELSE "send"]
    /\ UNCHANGED <<server_handle, server_state, broadcast_handle,
                   discovery_handle, discovered_devices, handle_owner, store,
                   cmd, cmd_result, hreq, hreply, tcp_port, udp_port, udp_sent,
                   budget, drains, appended>>

(* line 383: a datagram arrives within the window.                         *)
RequesterRecv(t, text, src_addr) ==
    /\ t \in 1..Len(tasks)
    /\ tasks[t].kind = "requester"
    /\ tasks[t].status = "running"
    /\ tasks[t].pc = "collect"
    /\ Spend("datagram")
    /\ tasks' = [tasks EXCEPT ![t].pc = "got",
                              ![t].dgram = <<[bytes |-> recv_from(text, REQUESTER_BUF),
                                              src_addr |-> src_addr]>>]
    /\ UNCHANGED <<server_handle, server_state, broadcast_handle,
                   discovery_handle, discovered_devices, handle_owner, store,
                   cmd, cmd_result, hreq, hreply, tcp_port, udp_port, udp_sent,
                   drains, appended>>

(* lines 384-405: the datagram is parsed and, when admitted, its device is *)
(* put into the list; the task collects on.                                *)
RequesterUpsert(t) ==
    /\ t \in 1..Len(tasks)
    /\ tasks[t].kind = "requester"
    /\ tasks[t].status # "dead"
    /\ tasks[t].pc = "got"
    /\ LET parsed == from_slice(tasks[t].dgram[1].bytes)
       IN  discovered_devices' =
              IF Admit(parsed)
              THEN Upsert(discovered_devices, DiscoveredDevice(parsed.value))
              ELSE discovered_devices
    /\ tasks' = [tasks EXCEPT ![t].pc = "collect", ![t].dgram = <<>>]
    /\ UNCHANGED <<server_handle, server_state, broadcast_handle,
                   discovery_handle, handle_owner, store, cmd, cmd_result, hreq,
                   hreply, tcp_port, udp_port, udp_sent, budget, drains,
                   appended>>

(* lines 378-381, 406-411: the window ends (or recv fails) and the task    *)
(* sleeps.                                                                 *)
RequesterWindowEnds(t) ==
    /\ t \in 1..Len(tasks)
    /\ tasks[t].kind = "requester"
    /\ tasks[t].status = "running"
    /\ tasks[t].pc = "collect"
    /\ tasks' = [tasks EXCEPT ![t].pc = "sleep"]
    /\ UNCHANGED <<server_handle, server_state, broadcast_handle,
                   discovery_handle, discovered_devices, handle_owner, store,
                   cmd, cmd_result, hreq, hreply, tcp_port, udp_port, udp_sent,
                   budget, drains, appended>>

(* lines 368, 411: the sleep ends and the next cycle begins.               *)
RequesterNextCycle(t) ==
    /\ t \in 1..Len(tasks)
    /\ tasks[t].kind = "requester"
    /\ tasks[t].status = "running"
    /\ tasks[t].pc = "sleep"
    /\ tasks' = [tasks EXCEPT ![t].pc = "send", ![t].probed = <<>>]
    /\ UNCHANGED <<server_handle, server_state, broadcast_handle,
                   discovery_handle, discovered_devices, handle_owner, store,
                   cmd, cmd_result, hreq, hreply, tcp_port, udp_port, udp_sent,
                   budget, drains, appended>>

-----------------------------------------------------------------------------
(* A step of the host or of a session's handler leaves the single-session  *)
(* model, the token functions, the interfaces and the mutex-level view of  *)
(* the calls alone.                                                        *)
Host(A) == A /\ UNCHANGED <<serverVars, tokenVars, if_addrs, lockVars>>

InitIdleServer == InitServer({<<OfferA, OfferB>>}, 0, 0) /\ InitToken

ConnectCodes == {token_to_connect_code(t) : t \in TokenPool}

-----------------------------------------------------------------------------
(* SpecDrain: one session; clients list, pull and push while the UI polls  *)
(* the activity log.                                                       *)

DrainRequests == 3     \* requests with a valid token
DrainPolls    == 3     \* get_sync_events calls

DrainBudget ==
    [NoBudget EXCEPT !["start_sync_server"] = 1,
                     !["valid"] = DrainRequests,
                     !["get_sync_events"] = DrainPolls]

InitDrain == InitIdleServer /\ InitHost(DrainBudget)

NextDrain ==
    \/ \E c \in Cmds : Host(start_sync_server(c, Some(<<ExportA, ExportB>>)))
    \/ \E c \in Cmds : Host(StopClearState(c))
    \/ \E c \in Cmds : Host(StopBroadcast(c))
    \/ \E c \in Cmds, tok \in TokenPool : Host(StartBind(c, tok, TRUE))
    \/ \E c \in Cmds : Host(StoreHandle(c))
    \/ \E c \in Cmds : Host(StoreState(c))
    \/ \E h \in Handlers, t \in 1..Len(tasks), tok \in ConnectCodes :
          Host(SessRateLimitCheck(h, t, "10.0.0.1", tok))
    \/ \E h \in Handlers : Host(SessValidateToken(h))
    \/ \E h \in Handlers : Host(SessListStories(h))
    \/ \E h \in Handlers, id \in {"a", "missing"} : Host(SessPullStory(h, id))
    \/ \E h \in Handlers : Host(SessPushStoryEvent(h, "X"))
    \/ \E h \in Handlers : Host(SessPushStoryStore(h))
    \/ Host(get_sync_events)

SpecDrain == InitDrain /\ [][NextDrain]_vars

-----------------------------------------------------------------------------
(* The events that the drains of store sid have returned, in call order.   *)
RECURSIVE Delivered(_, _)
Delivered(calls, sid) ==
    IF calls = <<>> THEN <<>>
    ELSE Delivered(SubSeq(calls, 1, Len(calls) - 1), sid)
         \o (IF calls[Len(calls)].sid = sid THEN calls[Len(calls)].events ELSE <<>>)

(* C11: at any moment the events that the drains of a store have returned, *)
(* followed by the events still in its log, are the events appended to it, *)
(* in the order they were appended: each event is returned by one drain at *)
(* most, none is skipped and none is reordered.  A drain that follows      *)
(* another drain of the store with no event appended in between returns    *)
(* the empty list.                                                         *)
C11_DrainExactlyOnce ==
    /\ \A sid \in 1..Len(store) :
          Delivered(drains, sid) \o store[sid].sync_events = appended[sid]
    /\ \A i \in 1..(Len(drains) - 1) :
          (drains[i].sid = drains[i + 1].sid /\ drains[i].total = drains[i + 1].total)
             => drains[i + 1].events = <<>>

(* Two drains returned events, the second of them the event of a push      *)
(* whose payload was not stored yet, and a third drain right after it      *)
(* returned nothing.                                                       *)
C11_Witness ==
    /\ Len(drains) = 3
    /\ drains[1].events # <<>>
    /\ drains[2].events # <<>>
    /\ drains[2].events[Len(drains[2].events)].event_type = "pushed"
    /\ drains[3].events = <<>>
    /\ drains[3].sid = drains[2].sid
    /\ \E h \in Handlers : hreq[h].pc = "store"

-----------------------------------------------------------------------------
(* A command that is invoked takes the first free slot.                    *)
FreeSlot(c) == cmd[c].pc = "idle" /\ \A d \in 1..(c - 1) : cmd[d].pc # "idle"

(* SpecRestart: the host starts a session and starts another over it, the  *)
(* two calls possibly overlapping, while clients push stories and fail to  *)
(* authenticate at whatever listener is there.                             *)

RestartStarts == 2     \* start_sync_server calls
RestartWrong  == 1     \* requests with an invalid token
RestartValid  == 2     \* requests with a valid token

RestartBudget ==
    [NoBudget EXCEPT !["start_sync_server"] = RestartStarts,
                     !["wrong"] = RestartWrong,
                     !["valid"] = RestartValid]

RestartExports == {None, Some(<<ExportBad, ExportA>>)}

InitRestart == InitIdleServer /\ InitHost(RestartBudget)

NextRestart ==
    \/ \E c \in Cmds, sj \in RestartExports :
          FreeSlot(c) /\ Host(start_sync_server(c, sj))
    \/ \E c \in Cmds : Host(StopClearState(c))
    \/ \E c \in Cmds : Host(StopBroadcast(c))
    \/ \E c \in Cmds, tok \in TokenPool, env_ok \in BOOLEAN :
          Host(StartBind(c, tok, env_ok))
    \/ \E c \in Cmds : Host(StoreHandle(c))
    \/ \E c \in Cmds : Host(StoreState(c))
    \/ \E t \in 1..Len(tasks) : Host(TaskDrop(t))
    \/ \E h \in Handlers, t \in 1..Len(tasks), tok \in ConnectCodes :
          Host(SessRateLimitCheck(h, t, "10.0.0.1", tok))
    \/ \E h \in Handlers : Host(SessValidateToken(h))
    \/ \E h \in Handlers : Host(SessPushStoryEvent(h, "X"))
    \/ \E h \in Handlers : Host(SessPushStoryStore(h))

SpecRestart == InitRestart /\ [][NextRestart]_vars

-----------------------------------------------------------------------------
(* Steps of a command, read off a pair of states.                          *)
Invokes(c, op)    == cmd[c].pc = "idle" /\ cmd'[c].pc = "stop_state" /\ cmd'[c].op = op
Runs(c, op, from) == cmd[c].op = op /\ cmd[c].pc = from /\ cmd'[c] # cmd[c]
Creates(c)        == cmd[c].pc = "bind" /\ cmd'[c].pc = "store_handle"
Returns(c, op)    == cmd[c].op = op /\ cmd'[c].pc = "idle"

(* The texts of the exports of a call that are JSON with a 'story', in the *)
(* order they were passed.                                                 *)
UsableTexts(stories_json) ==
    LET usable == SelectSeq(stories_json.list, LAMBDA e : e.valid /\ e.story # <<>>)
    IN  IF stories_json.some THEN [i \in 1..Len(usable) |-> usable[i].text]
                             ELSE <<>>

(* C12: start_sync_server first takes the registered listener out of its   *)
(* slot and aborts it, and unregisters the store; when it creates the new  *)
(* store every earlier listener has ended; the new store is a new          *)
(* instance with empty received stories, events and failure table and with *)
(* the usable exports of this call as its offers, and the stores of        *)
(* earlier sessions stay as they are; the call registers that instance and *)
(* returns its token; and a store is written only by the handlers of its   *)
(* own listener, never by those of an earlier session.                     *)
C12_FreshSession ==
    [][\A c \in Cmds :
          /\ Invokes(c, "start_sync_server") =>
                /\ server_handle' = 0
                /\ server_handle # 0 => tasks'[server_handle].status # "running"
          /\ Runs(c, "start_sync_server", "stop_state") => server_state' = 0
          /\ Creates(c) =>
                LET sid == cmd'[c].sid
                IN  /\ sid = Len(store) + 1
                    /\ Len(store') = sid
                    /\ \A i \in 1..Len(store) : store'[i] = store[i]
                    /\ store'[sid].token \in TokenPool
                    /\ store'[sid].received_stories = <<>>
                    /\ store'[sid].sync_events = <<>>
                    /\ DOMAIN store'[sid].auth_failures = {}
                    /\ [i \in 1..Len(store'[sid].stories) |->
                           store'[sid].stories[i].full_data] = UsableTexts(cmd[c].arg)
                    /\ \A t \in 1..Len(tasks) :
                          tasks[t].kind = "http" => tasks[t].status = "dead"
          /\ Returns(c, "start_sync_server") /\ cmd_result'.ok =>
                /\ server_state' = cmd[c].sid
                /\ cmd_result'.value[1] = store[cmd[c].sid].token
                /\ store' = store
          /\ \A sid \in 1..Len(store) :
                store'[sid] # store[sid] =>
                   \E h \in Handlers : hreq[h].sid = sid /\ hreq'[h] # hreq[h]]_vars

(* The second session is registered with a store that has nothing but its  *)
(* offer, while the store of the first holds a received story, an event    *)
(* and a failure record, and a handler of the first session is still about *)
(* to store a story.                                                       *)
C12_Witness ==
    /\ server_state = 2
    /\ store[2].received_stories = <<>>
    /\ store[2].sync_events = <<>>
    /\ DOMAIN store[2].auth_failures = {}
    /\ Len(store[2].stories) = 1
    /\ store[1].stories = <<>>
    /\ store[1].received_stories # <<>>
    /\ store[1].sync_events # <<>>
    /\ DOMAIN store[1].auth_failures # {}
    /\ store[1].token # store[2].token
    /\ \E h \in Handlers : hreq[h].sid = 1 /\ hreq[h].pc = "store"

-----------------------------------------------------------------------------
(* SpecSuper: the start and stop commands of the three kinds of task, two  *)
(* of the session commands in flight at most, and the tasks ending.        *)

SuperStarts == 2     \* start_sync_server calls
SuperStops  == 1     \* stop_sync_server calls
SuperBcasts == 2     \* start_udp_broadcast calls
SuperDiscos == 3     \* start_discovery calls

(* The requester shares no state with the session and the responder: a run *)
(* has the commands of the one or of the others.                           *)
SuperBudgets ==
    { [NoBudget EXCEPT !["start_sync_server"] = SuperStarts,
                       !["stop_sync_server"] = SuperStops,
                       !["start_udp_broadcast"] = SuperBcasts,
                       !["stop_udp_broadcast"] = 1],
      [NoBudget EXCEPT !["start_discovery"] = SuperDiscos,
                       !["stop_discovery"] = 1] }

InitSuper == InitIdleServer /\ \E b \in SuperBudgets : InitHost(b)

NextSuper ==
    \/ \E c \in Cmds : FreeSlot(c) /\ Host(start_sync_server(c, None))
    \/ \E c \in Cmds : FreeSlot(c) /\ Host(stop_sync_server(c))
    \/ \E c \in Cmds : Host(StopClearState(c))
    \/ \E c \in Cmds : Host(StopBroadcast(c))
    \/ \E c \in Cmds, env_ok \in BOOLEAN : Host(StartBind(c, SessionToken, env_ok))
    \/ \E c \in Cmds : Host(StoreHandle(c))
    \/ \E c \in Cmds : Host(StoreState(c))
    \/ Host(start_udp_broadcast("192.168.1.42", SYNC_PORT, "1.0.0", "android"))
    \/ Host(stop_udp_broadcast)
    \/ Host(start_discovery)
    \/ Host(stop_discovery)
    \/ \E t \in 1..Len(tasks), env_ok \in BOOLEAN : Host(ResponderBind(t, env_ok))
    \/ \E t \in 1..Len(tasks), env_ok \in BOOLEAN : Host(RequesterBind(t, env_ok))
    \/ \E t \in 1..Len(tasks) : Host(TaskDrop(t))

SpecSuper == InitSuper /\ [][NextSuper]_vars

-----------------------------------------------------------------------------
TaskKinds == {"http", "responder", "requester"}

(* The tasks of a kind that were spawned and have neither ended nor been   *)
(* signalled to abort.                                                     *)
Running(k) ==
    {t \in 1..Len(tasks) : tasks[t].kind = k /\ tasks[t].status = "running"}

(* The slot that held task old holds something else now, and old had       *)
(* ended or been signalled to abort by then.                               *)
Released(old, new) ==
    (new # old /\ old # 0) => tasks'[old].status # "running"

(* C13: at most one HTTP listener, one responder and one requester are     *)
(* running (spawned and not signalled to abort) at any moment, and a       *)
(* handle slot changes its content only when the task it held has been     *)
(* signalled to abort or has ended.                                        *)
C13_OneTaskPerKind ==
    [][/\ \A k \in TaskKinds : Cardinality(Running(k)') <= 1
       /\ Released(server_handle, server_handle')
       /\ Released(broadcast_handle, broadcast_handle')
       /\ Released(discovery_handle, discovery_handle')]_vars

(* A second listener and a second responder are registered and running     *)
(* after the first of each was aborted, while the start_sync_server that   *)
(* spawned the second listener has still to register its store.            *)
C13_Witness ==
    /\ Len(tasks) = 4
    /\ server_handle # 0
    /\ server_handle \in Running("http")
    /\ broadcast_handle \in Running("responder")
    /\ \E t \in 1..Len(tasks) : tasks[t].kind = "http" /\ tasks[t].status = "dead"
    /\ \E t \in 1..Len(tasks) : tasks[t].kind = "responder" /\ tasks[t].status = "aborted"
    /\ \E c \in Cmds : cmd[c].op = "start_sync_server" /\ cmd[c].pc = "store_state"

-----------------------------------------------------------------------------
(* SpecStop: the host starts a session and its responder, stops twice and  *)
(* polls, two of the session commands in flight at most, while a client    *)
(* pushes a story.                                                         *)

StopStops == 2     \* stop_sync_server calls
StopPolls == 1     \* calls of each poll command
StopValid == 1     \* requests with a valid token

StopBudget ==
    [NoBudget EXCEPT !["start_sync_server"] = 1,
                     !["stop_sync_server"] = StopStops,
                     !["get_sync_events"] = StopPolls,
                     !["get_received_stories"] = StopPolls,
                     !["clear_received_stories"] = StopPolls,
                     !["start_udp_broadcast"] = 1,
                     !["valid"] = StopValid]

InitStop == InitIdleServer /\ InitHost(StopBudget)

NextStop ==
    \/ \E c \in Cmds : FreeSlot(c) /\ Host(start_sync_server(c, Some(<<ExportA>>)))
    \/ \E c \in Cmds : FreeSlot(c) /\ Host(stop_sync_server(c))
    \/ \E c \in Cmds : Host(StopClearState(c))
    \/ \E c \in Cmds : Host(StopBroadcast(c))
    \/ \E c \in Cmds : Host(StartBind(c, SessionToken, TRUE))
    \/ \E c \in Cmds : Host(StoreHandle(c))
    \/ \E c \in Cmds : Host(StoreState(c))
    \/ \E t \in 1..Len(tasks) : Host(TaskDrop(t))
    \/ Host(start_udp_broadcast("192.168.1.42", SYNC_PORT, "1.0.0", "android"))
    \/ \E h \in Handlers, t \in 1..Len(tasks) :
          Host(SessRateLimitCheck(h, t, "10.0.0.1", token_to_connect_code(SessionToken)))
    \/ \E h \in Handlers : Host(SessValidateToken(h))
    \/ \E h \in Handlers : Host(SessPushStoryEvent(h, "X"))
    \/ \E h \in Handlers : Host(SessPushStoryStore(h))
    \/ Host(get_sync_events)
    \/ Host(get_received_stories)
    \/ Host(clear_received_stories)

SpecStop == InitStop /\ [][NextStop]_vars

Polls(op) == budget'[op] = budget[op] - 1

(* No start_sync_server is in flight and the command that returned last    *)
(* is a stop_sync_server.                                                  *)
Stopped ==
    /\ cmd_result.op = "stop_sync_server"
    /\ \A c \in Cmds : cmd[c].op # "start_sync_server"

(* C14: when stop_sync_server returns, the listener and the responder it   *)
(* took out of their slots have been signalled to abort, the three slots   *)
(* are empty and no store is registered; from then until the next          *)
(* start_sync_server, get_received_stories and get_sync_events return      *)
(* empty lists and clear_received_stories changes no store; a              *)
(* stop_sync_server that finds the slots empty returns Ok and changes no   *)
(* task.                                                                   *)
C14_StopTearsDown ==
    [][/\ \A c \in Cmds :
            /\ (Runs(c, "stop_sync_server", "idle") /\ server_handle # 0)
                  => tasks'[server_handle].status # "running"
            /\ (Runs(c, "stop_sync_server", "stop_broadcast") /\ broadcast_handle # 0)
                  => tasks'[broadcast_handle].status # "running"
            /\ Returns(c, "stop_sync_server")
                  => /\ server_handle' = 0
                     /\ broadcast_handle' = 0
                     /\ server_state' = 0
                     /\ cmd_result'.ok
            /\ (Runs(c, "stop_sync_server", "idle") /\ server_handle = 0)
                  => tasks' = tasks
            /\ (Runs(c, "stop_sync_server", "stop_broadcast") /\ broadcast_handle = 0)
                  => tasks' = tasks
       /\ (Stopped /\ Polls("get_received_stories")) => cmd_result'.value = <<>>
       /\ (Stopped /\ Polls("get_sync_events"))      => cmd_result'.value = <<>>
       /\ (Stopped /\ Polls("clear_received_stories"))
             => store' = store /\ cmd_result'.ok]_vars

-----------------------------------------------------------------------------
(* SpecResponder: sessions with one token or the other are started, the    *)
(* responder is started for them and stopped, and datagrams reach          *)
(* DISCOVERY_PORT.                                                         *)

ResponderStarts    == 2     \* start_sync_server calls
ResponderBcasts    == 2     \* start_udp_broadcast calls
ResponderDatagrams == 2     \* datagrams that reach the responder

ResponderBudget ==
    [NoBudget EXCEPT !["start_sync_server"] = ResponderStarts,
                     !["start_udp_broadcast"] = ResponderBcasts,
                     !["stop_udp_broadcast"] = 1,
                     !["datagram"] = ResponderDatagrams]

(* The datagrams and their senders: the request, the request followed by  *)
(* more bytes, the request less its last byte, the request with one other  *)
(* byte, nothing.                                                          *)
Datagram(bytes, src_addr) == [bytes |-> bytes, src_addr |-> src_addr]

Probes ==
    { Datagram(DISCOVERY_REQUEST, "192.168.1.7:40001"),
      Datagram(DISCOVERY_REQUEST, "192.168.1.8:40002"),
      Datagram(DISCOVERY_REQUEST \o <<"_", "v", "2">>, "192.168.1.8:40002"),
      Datagram(SubSeq(DISCOVERY_REQUEST, 1, Len(DISCOVERY_REQUEST) - 1),
               "192.168.1.7:40001"),
      Datagram([DISCOVERY_REQUEST EXCEPT ![Len(DISCOVERY_REQUEST)] = "Y"],
               "192.168.1.8:40002"),
      Datagram(<<>>, "192.168.1.7:40001") }

(* The address and the platform of the hosts that answer.                  *)
ResponderHosts == { <<"192.168.1.42", "android">>, <<"192.168.1.43", "linux">> }

InitResponder == InitIdleServer /\ InitHost(ResponderBudget)

NextResponder ==
    \/ FreeSlot(1) /\ Host(start_sync_server(1, None))
    \/ \E c \in Cmds : Host(StopClearState(c))
    \/ \E c \in Cmds : Host(StopBroadcast(c))
    \/ \E c \in Cmds, tok \in TokenPool : Host(StartBind(c, tok, TRUE))
    \/ \E c \in Cmds : Host(StoreHandle(c))
    \/ \E c \in Cmds : Host(StoreState(c))
    \/ \E host \in ResponderHosts :
          Host(start_udp_broadcast(host[1], SYNC_PORT, "1.0.0", host[2]))
    \/ Host(stop_udp_broadcast)
    \/ \E t \in 1..Len(tasks) : Host(ResponderBind(t, TRUE))
    \/ \E t \in 1..Len(tasks), d \in Probes :
          Host(ResponderRecv(t, d.bytes, d.src_addr))
    \/ \E t \in 1..Len(tasks) : Host(ResponderReply(t))
    \/ \E t \in 1..Len(tasks) : Host(TaskDrop(t))

SpecResponder == InitResponder /\ [][NextResponder]_vars

(* The response of a host, member by member.                               *)
ResponseText(host) ==
    << [k |-> "{", t |-> "punct", v |-> "", n |-> 0],
       [k |-> "app", t |-> "str", v |-> "aventuras", n |-> 0],
       [k |-> "ip", t |-> "str", v |-> host[1], n |-> 0],
       [k |-> "port", t |-> "num", v |-> "", n |-> 55555],
       [k |-> "version", t |-> "str", v |-> "1.0.0", n |-> 0],
       [k |-> "deviceName", t |-> "str",
        v |-> IF host[2] = "android" THEN "Android Device" ELSE "Linux PC", n |-> 0],
       [k |-> "}", t |-> "punct", v |-> "", n |-> 0] >>

HasMagic(bytes) ==
    /\ Len(bytes) >= Len(DISCOVERY_REQUEST)
    /\ \A i \in 1..Len(DISCOVERY_REQUEST) : bytes[i] = DISCOVERY_REQUEST[i]

(* Responder t has dealt with the datagram in its buffer.                  *)
Answers(t) ==
    /\ tasks[t].kind = "responder"
    /\ tasks[t].pc = "got"
    /\ tasks'[t].pc = "recv"

(* C16: a datagram is sent only by a responder that deals with a received  *)
(* datagram whose leading bytes are the magic sequence; it sends one       *)
(* datagram, its response, to the address the datagram came from; for any  *)
(* other datagram nothing is sent.                                         *)
C16_ReplyOnlyToRequest ==
    [][/\ udp_sent' # udp_sent
            => \E t \in 1..Len(tasks) :
                  /\ Answers(t)
                  /\ HasMagic(tasks[t].dgram[1].bytes)
                  /\ udp_sent' = Append(udp_sent,
                                        [by |-> t, to |-> tasks[t].dgram[1].src_addr,
                                         bytes |-> tasks[t].json])
       /\ \A t \in 1..Len(tasks) :
             Answers(t) =>
                Len(udp_sent') = Len(udp_sent)
                                 + (IF HasMagic(tasks[t].dgram[1].bytes) THEN 1 ELSE 0)]_vars

(* Two datagrams were received and dealt with: one was answered, to its    *)
(* sender, the other was not.                                              *)
C16_Witness ==
    /\ budget["datagram"] = 0
    /\ \A t \in 1..Len(tasks) : tasks[t].pc # "got"
    /\ Len(udp_sent) = 1
    /\ udp_sent[1].to = "192.168.1.8:40002"

-----------------------------------------------------------------------------
(* SpecRequester: the client starts and stops discovery while replies and  *)
(* other datagrams reach the socket of the requester.                      *)

RequesterStarts    == 2     \* start_discovery calls
RequesterDatagrams == 3     \* datagrams that reach the requester

RequesterBudget ==
    [NoBudget EXCEPT !["start_discovery"] = RequesterStarts,
                     !["stop_discovery"] = 1,
                     !["datagram"] = RequesterDatagrams]

Reply1  == DiscoveryBroadcast("aventuras", "192.168.1.42", SYNC_PORT, "1.0.0",
                              "Android Device")
Reply1b == DiscoveryBroadcast("aventuras", "192.168.1.42", SYNC_PORT, "1.1.0",
                              "iOS Device")
Reply2  == DiscoveryBroadcast("aventuras", "192.168.1.43", SYNC_PORT, "1.0.0",
                              "Android Device")
Foreign == DiscoveryBroadcast("aventura", "192.168.1.44", SYNC_PORT, "1.0.0",
                              "Android Device")

(* The datagrams: three replies, two of them of one host; the reply of     *)
(* another application; a reply cut off after its third member; bytes that *)
(* are no JSON; a reply without its version.                               *)
ValidReplies == { to_string(Reply1), to_string(Reply1b), to_string(Reply2) }

OtherDatagrams ==
    { to_string(Foreign),
      SubSeq(to_string(Reply2), 1, 4),
      << Lexeme("AVENTURAS_DISCOVER", "junk", "", 0) >>,
      SelectSeq(to_string(Reply2), LAMBDA x : x.k # "version") }

Replies == ValidReplies \cup OtherDatagrams

InitRequester == InitIdleServer /\ InitHost(RequesterBudget)

NextRequester ==
    \/ Host(start_discovery)
    \/ Host(stop_discovery)
    \/ \E t \in 1..Len(tasks), env_ok \in BOOLEAN : Host(RequesterBind(t, env_ok))
    \/ \E t \in 1..Len(tasks), text \in Replies :
          Host(RequesterRecv(t, text, "192.168.1.42:55556"))
    \/ \E t \in 1..Len(tasks) : Host(RequesterUpsert(t))
    \/ \E t \in 1..Len(tasks) : Host(RequesterWindowEnds(t))
    \/ \E t \in 1..Len(tasks) : Host(RequesterNextCycle(t))
    \/ \E t \in 1..Len(tasks) : Host(RequesterProbe(t))
    \/ \E t \in 1..Len(tasks) : Host(TaskDrop(t))

SpecRequester == InitRequester /\ [][NextRequester]_vars

(* Requester t has dealt with the datagram in its buffer.                  *)
Collects(t) ==
    /\ tasks[t].kind = "requester"
    /\ tasks[t].pc = "got"
    /\ tasks'[t].pc = "collect"

(* The device a valid reply reports.                                       *)
Reported(text) ==
    [ip |-> text[3].v, port |-> text[4].n, version |-> text[5].v,
     device_name |-> text[6].v]

OnePerIP(list) ==
    \A i, j \in 1..Len(list) : list[i].ip = list[j].ip => i = j

(* C17: the list never holds two entries with one IP; a valid reply for an *)
(* IP of the list replaces the entry of that IP where it stands, by the    *)
(* port, version and device name of the reply; a valid reply for another   *)
(* IP adds its device at the end; nothing else changes the list but the    *)
(* clearing by start_discovery and stop_discovery.                         *)
C17_UpsertByIP ==
    [][/\ OnePerIP(discovered_devices')
       /\ \A t \in 1..Len(tasks) :
             (Collects(t) /\ tasks[t].dgram[1].bytes \in ValidReplies) =>
                LET device == Reported(tasks[t].dgram[1].bytes)
                    known  == \E i \in 1..Len(discovered_devices) :
                                 discovered_devices[i].ip = device.ip
                IN  IF known
                    THEN discovered_devices' =
                            [i \in 1..Len(discovered_devices) |->
                               IF discovered_devices[i].ip = device.ip
                               THEN device ELSE discovered_devices[i]]
                    ELSE discovered_devices' = Append(discovered_devices, device)
       /\ discovered_devices' # discovered_devices
             => \/ discovered_devices' = <<>>
                \/ \E t \in 1..Len(tasks) : Collects(t)]_vars

(* One requester has dealt with three datagrams: the list holds the later  *)
(* reply of the first host, in the first place, and the reply of the       *)
(* second host.                                                            *)
C17_Witness ==
    /\ budget["datagram"] = 0
    /\ budget["start_discovery"] = RequesterStarts - 1
    /\ budget["stop_discovery"] = 1
    /\ \A t \in 1..Len(tasks) : tasks[t].pc # "got"
    /\ discovered_devices = << DiscoveredDevice(Reply1b), DiscoveredDevice(Reply2) >>

(* C18: a requester that deals with a datagram that is no valid reply of   *)
(* this application leaves the list as it is and is suspended at the       *)
(* recv_from of the same window, running if it was running: it goes on to  *)
(* the later cycles.                                                       *)
C18_BadDatagramIgnored ==
    [][\A t \in 1..Len(tasks) :
          (Collects(t) /\ tasks[t].dgram[1].bytes \notin ValidReplies) =>
             /\ discovered_devices' = discovered_devices
             /\ tasks'[t].status = tasks[t].status
             /\ tasks'[t].pc = "collect"]_vars

(* One requester has dealt with three datagrams, none of them a valid      *)
(* reply: the list is empty and the requester runs, in the pause before    *)
(* its next cycle.                                                         *)
C18_Witness ==
    /\ budget["datagram"] = 0
    /\ budget["start_discovery"] = RequesterStarts - 1
    /\ budget["stop_discovery"] = 1
    /\ discovery_handle # 0
    /\ tasks[discovery_handle].status = "running"
    /\ tasks[discovery_handle].pc = "sleep"
    /\ discovered_devices = <<>>

(* C19: only the registered requester, not cancelled, puts a device into   *)
(* the list; while no requester is registered the list is empty.           *)
C19_NoDeviceOfCancelledInstance ==
    [][/\ (discovered_devices' # discovered_devices /\ discovered_devices' # <<>>)
             => \E t \in 1..Len(tasks) :
                   /\ Collects(t)
                   /\ tasks[t].status = "running"
                   /\ discovery_handle = t
       /\ discovery_handle' = 0 => discovered_devices' = <<>>]_vars

-----------------------------------------------------------------------------
(* SpecTargets: the requester is started on a machine with any interfaces  *)
(* of a pool, in any order, or on one whose interfaces cannot be listed.   *)

MaxInterfaces == 3     \* interfaces of the machine

TargetsBudget ==
    [NoBudget EXCEPT !["start_discovery"] = 1, !["stop_discovery"] = 1]

(* The pool: the loopback; two addresses of one /24; a /16; a /30; an      *)
(* interface without a netmask; an IPv6 address.                           *)
Loopback == V4(<<127, 0, 0, 1>>, <<255, 0, 0, 0>>)
Eth0     == V4(<<192, 168, 1, 43>>, <<255, 255, 255, 0>>)
Office   == V4(<<10, 1, 2, 3>>, <<255, 255, 0, 0>>)
Link     == V4(<<10, 0, 0, 1>>, <<255, 255, 255, 252>>)
Tun      == V4(<<10, 8, 0, 2>>, <<0, 0, 0, 0>>)

InterfacePool == { Loopback, Wlan, Eth0, Office, Link, Tun, V6(FALSE) }

RECURSIVE Lists(_, _)
Lists(S, n) ==
    IF n = 0 THEN { <<>> }
    ELSE Lists(S, n - 1) \cup { Append(l, x) : l \in Lists(S, n - 1), x \in S }

IfAddrsResults == { IfErr } \cup { IfOk(l) : l \in Lists(InterfacePool, MaxInterfaces) }

InitTargets ==
    InitIdleServer /\ \E r \in IfAddrsResults : InitHostOn(TargetsBudget, r)

NextTargets ==
    \/ Host(start_discovery)
    \/ Host(stop_discovery)
    \/ \E t \in 1..Len(tasks), env_ok \in BOOLEAN : Host(RequesterBind(t, env_ok))
    \/ \E t \in 1..Len(tasks) : Host(RequesterWindowEnds(t))
    \/ \E t \in 1..Len(tasks) : Host(RequesterNextCycle(t))
    \/ \E t \in 1..Len(tasks) : Host(RequesterProbe(t))
    \/ \E t \in 1..Len(tasks) : Host(TaskDrop(t))

SpecTargets == InitTargets /\ [][NextTargets]_vars

LimitedBroadcast ==
    <<"2","5","5",".","2","5","5",".","2","5","5",".","2","5","5",":",
      "5","5","5","5","6">>

(* The requesters that have computed their targets.                        *)
Probing == { t \in 1..Len(tasks) : tasks[t].kind = "requester" /\ tasks[t].pc # "start" }

NoDuplicates(list) == \A i, j \in 1..Len(list) : list[i] = list[j] => i = j

Bit(n, b) == (n \div (2 ^ b)) % 2

(* The address ip | ~netmask of the interface is 255.255.255.255: every    *)
(* bit of the netmask is a bit of the ip.                                  *)
BroadcastIsLimited(iface) ==
    \A k \in 1..4 : \A b \in 0..7 :
        Bit(iface.netmask[k], b) = 1 => Bit(iface.ip[k], b) = 1

OrNot(x, m) ==
    LET on(b) == IF Bit(x, b) = 1 \/ Bit(m, b) = 0 THEN 2 ^ b ELSE 0
    IN  on(0) + on(1) + on(2) + on(3) + on(4) + on(5) + on(6) + on(7)

(* The elements of list, each where it stands first.                       *)
RECURSIVE KeepFirst(_)
KeepFirst(list) ==
    IF list = <<>> THEN <<>>
    ELSE LET front == SubSeq(list, 1, Len(list) - 1)
             last  == list[Len(list)]
         IN  IF \E i \in 1..Len(front) : front[i] = last
             THEN KeepFirst(front)
             ELSE Append(KeepFirst(front), last)

(* The directed broadcast of every IPv4 interface but the loopback, in the *)
(* order of the interfaces, followed by the limited broadcast.             *)
DirectedThenLimited(result) ==
    LET usable == SelectSeq(result.list, LAMBDA x : x.v4 /\ x.ip[1] # 127)
    IN  [i \in 1..Len(usable) |->
            FormatTarget([k \in 1..4 |-> OrNot(usable[i].ip[k], usable[i].netmask[k])],
                         55556)]
        \o << LimitedBroadcast >>

(* C21: the targets of a requester are the addresses ip | ~netmask, octet  *)
(* by octet, with DISCOVERY_PORT, of the IPv4 interfaces other than the    *)
(* loopback, in the order of the interfaces, and then the limited          *)
(* broadcast, each address where it stands first; 192.168.1.42/24 gives    *)
(* 192.168.1.255:55556.                                                    *)
C21_DirectedBroadcasts ==
    \A t \in Probing :
        /\ tasks[t].broadcast_targets = KeepFirst(DirectedThenLimited(if_addrs))
        /\ (\E i \in 1..Len(if_addrs.list) : if_addrs.list[i] = Wlan)
              => \E i \in 1..Len(tasks[t].broadcast_targets) :
                    tasks[t].broadcast_targets[i] =
                       <<"1","9","2",".","1","6","8",".","1",".","2","5","5",":",
                         "5","5","5","5","6">>

(* A requester on a machine with the loopback, 192.168.1.42/24, and        *)
(* 10.0.0.1/30 probes 192.168.1.255, 10.0.0.3 and the limited broadcast.   *)
C21_Witness ==
    /\ if_addrs = IfOk(<<Loopback, Wlan, Link>>)
    /\ \E t \in Probing :
          tasks[t].broadcast_targets =
             << <<"1","9","2",".","1","6","8",".","1",".","2","5","5",":",
                  "5","5","5","5","6">>,
                <<"1","0",".","0",".","0",".","3",":","5","5","5","5","6">>,
                LimitedBroadcast >>

-----------------------------------------------------------------------------
(* Task t ends at the bind of its socket.                                  *)
BindFails(t) ==
    /\ tasks[t].pc = "start"
    /\ tasks[t].status = "running"
    /\ tasks'[t].status = "dead"

(* C22: a start command whose task cannot bind returns Err.                *)
(* start_sync_server that finds SYNC_PORT taken, or cannot set up its      *)
(* listener, spawns nothing and returns Err; the responder and the         *)
(* requester that a start command has registered with Ok do not end at     *)
(* their bind.                                                             *)
C22_BindFailureSurfaced ==
    [][/\ \A c \in Cmds :
             (Runs(c, "start_sync_server", "bind") /\ ~Creates(c))
                => /\ Returns(c, "start_sync_server")
                   /\ ~cmd_result'.ok
                   /\ tasks' = tasks
       /\ \A t \in 1..Len(tasks) :
             BindFails(t) =>
                /\ ~(t = broadcast_handle /\ cmd_result.op = "start_udp_broadcast"
                                          /\ cmd_result.ok)
                /\ ~(t = discovery_handle /\ cmd_result.op = "start_discovery"
                                          /\ cmd_result.ok)]_vars

-----------------------------------------------------------------------------
(* SpecStore: one session is started and stopped while clients list, pull  *)
(* and push, with the token or without, and the UI polls and clears.       *)

StoreValid == 2     \* requests with a valid token
StoreWrong == 1     \* requests with an invalid token
StoreReads == 2     \* get_received_stories calls

StoreBudget ==
    [NoBudget EXCEPT !["start_sync_server"] = 1,
                     !["stop_sync_server"] = 1,
                     !["valid"] = StoreValid,
                     !["wrong"] = StoreWrong,
                     !["get_received_stories"] = StoreReads,
                     !["clear_received_stories"] = 1,
                     !["get_sync_events"] = 1]

InitStore == InitIdleServer /\ InitHost(StoreBudget)

NextStore ==
    \/ FreeSlot(1) /\ Host(start_sync_server(1, Some(<<ExportA, ExportB>>)))
    \/ FreeSlot(1) /\ Host(stop_sync_server(1))
    \/ \E c \in Cmds : Host(StopClearState(c))
    \/ \E c \in Cmds : Host(StopBroadcast(c))
    \/ \E c \in Cmds : Host(StartBind(c, SessionToken, TRUE))
    \/ \E c \in Cmds : Host(StoreHandle(c))
    \/ \E c \in Cmds : Host(StoreState(c))
    \/ \E t \in 1..Len(tasks) : Host(TaskDrop(t))
    \/ \E h \in Handlers, t \in 1..Len(tasks), tok \in {SessionToken, WrongToken} :
          Host(SessRateLimitCheck(h, t, "10.0.0.1", tok))
    \/ \E h \in Handlers : Host(SessValidateToken(h))
    \/ \E h \in Handlers : Host(SessListStories(h))
    \/ \E h \in Handlers, id \in {"a", "missing"} : Host(SessPullStory(h, id))
    \/ \E h \in Handlers, d \in {"X", "Y"} : Host(SessPushStoryEvent(h, d))
    \/ \E h \in Handlers : Host(SessPushStoryStore(h))
    \/ Host(get_sync_events)
    \/ Host(get_received_stories)
    \/ Host(clear_received_stories)

SpecStore == InitStore /\ [][NextStore]_vars

(* C23: the offers of a store never change once the store is created: no  *)
(* step of a handler, of a poll, of a start or of a stop changes the list, *)
(* its order, a preview or a payload; a new session gets a new store.      *)
C23_OffersFixed ==
    [][/\ Len(store') >= Len(store)
       /\ \A sid \in 1..Len(store) : store'[sid].stories = store[sid].stories]_vars

(* A session has answered a list, a pull or a push and a rejected request, *)
(* was polled, cleared and stopped, and its store holds the two offers it  *)
(* was started with.                                                       *)
C23_Witness ==
    /\ Len(store) = 1
    /\ budget["valid"] = 0
    /\ budget["wrong"] = 0
    /\ budget["clear_received_stories"] = 0
    /\ budget["get_sync_events"] = 0
    /\ budget["stop_sync_server"] = 0
    /\ \A h \in Handlers : hreq[h].pc = "idle"
    /\ Len(appended[1]) = StoreValid
    /\ Len(store[1].stories) = 2
    /\ store[1].stories[1].full_data = "json-alpha"
    /\ store[1].stories[2].full_data = "json-beta"

(* Handler h stores the story it was pushed.                               *)
Stores(h) == hreq[h].pc = "store" /\ hreq'[h].pc = "idle"

(* C24: the received stories of a store change only by a PushStory, which  *)
(* appends its story at the end, and by clear_received_stories, which      *)
(* empties the collection of the registered store; get_received_stories    *)
(* returns the whole collection of the registered store and changes no     *)
(* store, so that a second call returns the same list when the collection  *)
(* is what the first returned.                                             *)
C24_ReceivedAppendOnly ==
    [][/\ \A sid \in 1..Len(store) :
             \/ store'[sid].received_stories = store[sid].received_stories
             \/ \E h \in Handlers :
                   /\ Stores(h)
                   /\ hreq[h].sid = sid
                   /\ store'[sid].received_stories =
                         Append(store[sid].received_stories, hreq[h].action.arg)
             \/ /\ Polls("clear_received_stories")
                /\ server_state = sid
                /\ store'[sid].received_stories = <<>>
       /\ Polls("get_received_stories") =>
             /\ store' = store
             /\ cmd_result'.value =
                   IF server_state = 0 THEN <<>>
                   ELSE store[server_state].received_stories
             /\ (cmd_result.op = "get_received_stories"
                 /\ server_state # 0
                 /\ cmd_result.value = store[server_state].received_stories)
                   => cmd_result' = cmd_result]_vars

(* Two stories were pushed and stored in their order, and two calls of     *)
(* get_received_stories in a row have returned both.                       *)
C24_Witness ==
    /\ server_state = 1
    /\ store[1].received_stories = <<"X", "Y">>
    /\ budget["get_received_stories"] = 0
    /\ cmd_result.op = "get_received_stories"
    /\ cmd_result.value = <<"X", "Y">>

-----------------------------------------------------------------------------
(* Handler h, serving the store sid, leaves its dispatch.                  *)
Dispatches(h, sid) ==
    /\ hreq[h].pc = "dispatch"
    /\ hreq[h].sid = sid
    /\ hreq'[h].pc # "dispatch"

(* The event of the request a handler has dispatched.                      *)
EventTypeOf(h) ==
    IF hreq'[h].pc = "store" THEN "pushed"
    ELSE IF hreply'.action.type = "ListStories" THEN "connected"
    ELSE "pulled"

(* C25: an event is put at the end of the log of its store, in the         *)
(* critical section of the handler that handles its request: it stands     *)
(* after every event logged before, those of the requests already answered *)
(* on the same connection among them, and the log is drained from its      *)
(* front, so the drains give the events in that order.                     *)
C25_EventsInHandlingOrder ==
    [][\A sid \in 1..Len(store) :
          /\ \/ appended'[sid] = appended[sid]
             \/ \E h \in Handlers :
                   /\ Dispatches(h, sid)
                   /\ \E e \in {store'[sid].sync_events[Len(store'[sid].sync_events)]} :
                         /\ e.event_type = EventTypeOf(h)
                         /\ appended'[sid] = Append(appended[sid], e)
                         /\ store'[sid].sync_events = Append(store[sid].sync_events, e)
          /\ Delivered(drains', sid) \o store'[sid].sync_events = appended'[sid]]_vars

(* A list, a pull and a push were handled in this order; their events were *)
(* drained in two parts.                                                   *)
C25_Witness ==
    /\ Len(appended) = 1
    /\ Len(appended[1]) = 3
    /\ appended[1][1].event_type = "connected"
    /\ appended[1][2].event_type = "pulled"
    /\ appended[1][3].event_type = "pushed"
    /\ \E i, j \in 1..Len(drains) :
          /\ i < j
          /\ drains[i].events = SubSeq(appended[1], 1, 1)
          /\ drains[j].events = SubSeq(appended[1], 2, 3)

-----------------------------------------------------------------------------
(* SpecLoops: the two discovery loops, started, replaced and stopped, with *)
(* datagrams, receive errors and window ends.  The timers of the runtime   *)
(* fire and a ready task is polled: the steps of the loops are weakly fair.*)

LoopBcasts     == 1     \* start_udp_broadcast calls
LoopStarts     == 2     \* start_discovery calls
LoopDatagrams  == 1     \* datagrams that reach a loop

LoopBudget ==
    [NoBudget EXCEPT !["start_udp_broadcast"] = LoopBcasts,
                     !["stop_udp_broadcast"] = 1,
                     !["start_discovery"] = LoopStarts,
                     !["stop_discovery"] = 1,
                     !["datagram"] = LoopDatagrams]

LoopTasks == 1..(LoopBcasts + LoopStarts)

InitLoops == InitIdleServer /\ InitHostOn(LoopBudget, IfOk(<<Wlan>>))

NextLoops ==
    \/ Host(start_udp_broadcast("192.168.1.42", SYNC_PORT, "1.0.0", "android"))
    \/ Host(stop_udp_broadcast)
    \/ Host(start_discovery)
    \/ Host(stop_discovery)
    \/ \E t \in LoopTasks, env_ok \in BOOLEAN : Host(ResponderBind(t, env_ok))
    \/ \E t \in LoopTasks :
          Host(ResponderRecv(t, DISCOVERY_REQUEST, "192.168.1.7:40001"))
    \/ \E t \in LoopTasks : Host(ResponderReply(t))
    \/ \E t \in LoopTasks : Host(ResponderRecvError(t))
    \/ \E t \in LoopTasks : Host(ResponderResume(t))
    \/ \E t \in LoopTasks, env_ok \in BOOLEAN : Host(RequesterBind(t, env_ok))
    \/ \E t \in LoopTasks : Host(RequesterProbe(t))
    \/ \E t \in LoopTasks :
          Host(RequesterRecv(t, to_string(Reply1), "192.168.1.42:55556"))
    \/ \E t \in LoopTasks : Host(RequesterUpsert(t))
    \/ \E t \in LoopTasks : Host(RequesterWindowEnds(t))
    \/ \E t \in LoopTasks : Host(RequesterNextCycle(t))
    \/ \E t \in LoopTasks : Host(TaskDrop(t))

LoopFairness ==
    \A t \in LoopTasks :
       /\ WF_vars(Host(ResponderReply(t)))
       /\ WF_vars(Host(ResponderResume(t)))
       /\ WF_vars(Host(RequesterProbe(t)))
       /\ WF_vars(Host(RequesterUpsert(t)))
       /\ WF_vars(Host(RequesterWindowEnds(t)))
       /\ WF_vars(Host(RequesterNextCycle(t)))

SpecLoops == InitLoops /\ [][NextLoops]_vars /\ LoopFairness

(* Task t is in its loop.                                                  *)
InLoop(t, kind) ==
    /\ t \in 1..Len(tasks)
    /\ tasks[t].kind = kind
    /\ tasks[t].pc # "start"

(* The handle of task t is taken out of its slot.                          *)
Cancels(t) ==
    \/ broadcast_handle = t /\ broadcast_handle' # t
    \/ discovery_handle = t /\ discovery_handle' # t

At(t, kind, pc) == InLoop(t, kind) /\ tasks[t].pc = pc

Cancelled(t) == t \in 1..Len(tasks) /\ tasks[t].status # "running"

(* The steps of the two loops, from await to await.                        *)
LoopSteps ==
    { <<"responder", "recv", "got">>, <<"responder", "got", "recv">>,
      <<"responder", "recv", "backoff">>, <<"responder", "backoff", "recv">>,
      <<"requester", "send", "send">>, <<"requester", "send", "collect">>,
      <<"requester", "collect", "got">>, <<"requester", "got", "collect">>,
      <<"requester", "collect", "sleep">>, <<"requester", "sleep", "send">> }

IsPrefix(s, t) == Len(s) <= Len(t) /\ s = SubSeq(t, 1, Len(s))

(* The loop of task t goes on while it is not cancelled.                   *)
LoopGoesOn(t) ==
    /\ tasks'[t].status # tasks[t].status =>
          \/ tasks[t].status = "running" /\ tasks'[t].status = "aborted" /\ Cancels(t)
          \/ tasks[t].status = "aborted" /\ tasks'[t].status = "dead"
    /\ tasks'[t] # tasks[t] /\ tasks'[t].status = tasks[t].status =>
          <<tasks[t].kind, tasks[t].pc, tasks'[t].pc>> \in LoopSteps
    /\ tasks'[t].broadcast_targets = tasks[t].broadcast_targets

(* The probes of the cycle task t is in.                                   *)
ProbesOfCycle(t) ==
    /\ tasks[t].pc = "sleep" /\ tasks'[t].pc = "send" => tasks'[t].probed = <<>>
    /\ tasks'[t].pc = "send" =>
          /\ IsPrefix(tasks'[t].probed, tasks[t].broadcast_targets)
          /\ tasks'[t].probed # tasks[t].broadcast_targets
    /\ tasks'[t].pc \in {"collect", "got", "sleep"} =>
          tasks'[t].probed = tasks[t].broadcast_targets

(* C26: a discovery loop whose socket is bound ends only by cancellation:  *)
(* the responder goes from a receive error over its backoff back to        *)
(* listening; the requester goes from the probes, one to each target, over *)
(* the window, which a timeout or an error ends, and the pause to the      *)
(* probes of the next cycle, and while it is not cancelled it comes to     *)
(* each of them again and again.                                           *)
C26_LoopsRunUntilCancelled ==
    /\ [][\A t \in LoopTasks :
            /\ (InLoop(t, "responder") \/ InLoop(t, "requester")) => LoopGoesOn(t)
            /\ InLoop(t, "requester") => ProbesOfCycle(t)]_vars
    /\ \A t \in LoopTasks :
          /\ At(t, "responder", "backoff")
                ~> (Cancelled(t) \/ At(t, "responder", "recv"))
          /\ At(t, "requester", "send")
                ~> (Cancelled(t) \/ At(t, "requester", "sleep"))
          /\ At(t, "requester", "sleep")
                ~> (Cancelled(t)
                    \/ (At(t, "requester", "collect")
                        /\ tasks[t].probed = tasks[t].broadcast_targets))

(* The responder waits after a receive error; the requester, which has    *)
(* replaced another, pauses after a window in which it found a device, all *)
(* its targets probed; neither was cancelled.                              *)
C26_Witness ==
    /\ broadcast_handle # 0
    /\ tasks[broadcast_handle].status = "running"
    /\ tasks[broadcast_handle].pc = "backoff"
    /\ budget["start_discovery"] = 0
    /\ discovery_handle # 0
    /\ tasks[discovery_handle].status = "running"
    /\ tasks[discovery_handle].pc = "sleep"
    /\ tasks[discovery_handle].probed = tasks[discovery_handle].broadcast_targets
    /\ Len(tasks[discovery_handle].probed) = 2
    /\ Len(discovered_devices) = 1

-----------------------------------------------------------------------------
(* commands.rs, lines 378-487: the client commands.  Each posts one        *)
(* request with a timeout on the request builder, which runs from the      *)
(* start of the connection to the end of the response body: over send()    *)
(* and over json().  The pc of a call is the await it is suspended at      *)
(* ("send", "body"); waited is the whole seconds since it was issued.      *)

ClientOps == {"sync_connect", "sync_pull_story", "sync_push_story"}

(* A variant with the bound of the list call on the pull call.             *)
Timeout_PullAsList(op) == IF op = "sync_push_story" THEN 30 ELSE 10

(* lines 398, 434, 472: .timeout(Duration::from_secs(_))                   *)
Timeout(op) ==
    CASE op = "sync_connect"    -> 10
      [] op = "sync_pull_story" -> 30
      [] op = "sync_push_story" -> 30

ClientCall(op) ==
    [op |-> op, pc |-> "send", arg |-> None, sid |-> 0, task |-> 0, waited |-> 0]

InFlight(c) == cmd[c].op \in ClientOps

hostState ==
    <<server_handle, server_state, broadcast_handle, discovery_handle,
      discovered_devices, handle_owner, tasks, store, hreq, hreply, tcp_port,
      udp_port, udp_sent, budget, drains, appended>>

(* lines 382-401, 417-437, 453-475: the request is built and posted.       *)
sync_connect(c) ==
    /\ cmd[c].pc = "idle"
    /\ cmd' = [cmd EXCEPT ![c] = ClientCall("sync_connect")]
    /\ UNCHANGED <<cmd_result, hostState>>

sync_pull_story(c) ==
    /\ cmd[c].pc = "idle"
    /\ cmd' = [cmd EXCEPT ![c] = ClientCall("sync_pull_story")]
    /\ UNCHANGED <<cmd_result, hostState>>

sync_push_story(c) ==
    /\ cmd[c].pc = "idle"
    /\ cmd' = [cmd EXCEPT ![c] = ClientCall("sync_push_story")]
    /\ UNCHANGED <<cmd_result, hostState>>

(* A second passes while the call is suspended, its timer not yet due.     *)
ClientWait(c) ==
    /\ InFlight(c)
    /\ cmd[c].waited < Timeout(cmd[c].op)
    /\ cmd' = [cmd EXCEPT ![c].waited = @ + 1]
    /\ UNCHANGED <<cmd_result, hostState>>

(* lines 399-401: send() fails, by the timer or with another error e.      *)
ClientSendFails(c, e) ==
    /\ InFlight(c)
    /\ cmd[c].pc = "send"
    /\ (e = "timed out") = (cmd[c].waited = Timeout(cmd[c].op))
    /\ CmdReturn(c, cmd[c].op, FALSE, <<"Connection failed: ", e>>)
    /\ UNCHANGED hostState

(* lines 399-403: send() returns the head of a response in time.           *)
ClientHead(c) ==
    /\ InFlight(c)
    /\ cmd[c].pc = "send"
    /\ cmd[c].waited < Timeout(cmd[c].op)
    /\ cmd' = [cmd EXCEPT ![c].pc = "body"]
    /\ UNCHANGED <<cmd_result, hostState>>

(* lines 403-406: json() fails, by the timer or with another error e.      *)
ClientBodyFails(c, e) ==
    /\ InFlight(c)
    /\ cmd[c].pc = "body"
    /\ (e = "timed out") = (cmd[c].waited = Timeout(cmd[c].op))
    /\ CmdReturn(c, cmd[c].op, FALSE, <<"Invalid response: ", e>>)
    /\ UNCHANGED hostState

(* lines 408-412, 444-448, 482-486                                         *)
ClientResult(op, sync_response) ==
    IF op = "sync_connect" /\ sync_response.type = "StoriesList"
        THEN [ok |-> TRUE, value |-> sync_response.stories]
    ELSE IF op = "sync_pull_story" /\ sync_response.type = "StoryData"
        THEN [ok |-> TRUE, value |-> <<sync_response.data>>]
    ELSE IF op = "sync_push_story" /\ sync_response.type = "Success"
        THEN [ok |-> TRUE, value |-> <<>>]
    ELSE IF sync_response.type = "Error"
        THEN [ok |-> FALSE, value |-> sync_response.message]
    ELSE [ok |-> FALSE, value |-> <<"Unexpected response type">>]

(* lines 403-412: json() returns the response in time; the call returns.   *)
ClientBody(c, sync_response) ==
    /\ InFlight(c)
    /\ cmd[c].pc = "body"
    /\ cmd[c].waited < Timeout(cmd[c].op)
    /\ LET r == ClientResult(cmd[c].op, sync_response)
       IN  CmdReturn(c, cmd[c].op, r.ok, r.value)
    /\ UNCHANGED hostState

-----------------------------------------------------------------------------
(* SpecClient: list, pull and push calls, two at a time, against servers   *)
(* that answer, answer late, answer with something else, or do not answer. *)

ClientErrors == {"timed out", "connection refused", "decode"}

ClientResponses ==
    { StoriesListResponse(<<>>), StoryDataResponse("X"),
      SuccessResponse(<<"Story received successfully">>),
      ErrorResponse(InvalidTokenMessage) }

InitClient == InitIdleServer /\ InitHost(NoBudget)

NextClient ==
    \/ \E c \in Cmds : FreeSlot(c) /\ Host(sync_connect(c))
    \/ \E c \in Cmds : FreeSlot(c) /\ Host(sync_pull_story(c))
    \/ \E c \in Cmds : FreeSlot(c) /\ Host(sync_push_story(c))
    \/ \E c \in Cmds : Host(ClientWait(c))
    \/ \E c \in Cmds, e \in ClientErrors \ {"decode"} : Host(ClientSendFails(c, e))
    \/ \E c \in Cmds : Host(ClientHead(c))
    \/ \E c \in Cmds, e \in ClientErrors \ {"connection refused"} :
          Host(ClientBodyFails(c, e))
    \/ \E c \in Cmds, r \in ClientResponses : Host(ClientBody(c, r))

SpecClient == InitClient /\ [][NextClient]_vars

(* Call c ends in this step with the error that begins with prefix.        *)
FailsWith(c, prefix) ==
    /\ cmd'[c].pc = "idle"
    /\ cmd_result'.op = cmd[c].op
    /\ ~cmd_result'.ok
    /\ cmd_result'.value[1] = prefix

(* C27 as stated: the list and the pull call wait 10 s at most, the push   *)
(* call 30 s; a call at its bound ends with a 'Connection failed' error.   *)
C27_ClientTimeouts ==
    [][\A c \in Cmds : InFlight(c) =>
          LET bound == IF cmd[c].op = "sync_push_story" THEN 30 ELSE 10
          IN  /\ cmd[c].waited <= bound
              /\ (cmd[c].waited = bound /\ cmd'[c] # cmd[c]) =>
                    FailsWith(c, "Connection failed: ")]_vars

(* C27, amended: the list call waits 10 s at most, the pull and the push   *)
(* call 30 s; a call at its bound does not wait on but ends with an error: *)
(* 'Connection failed' when it still awaits the head of the response,      *)
(* 'Invalid response' when it reads the body.                              *)
C27_ClientTimeoutsAsCoded ==
    [][\A c \in Cmds : InFlight(c) =>
          LET bound == IF cmd[c].op = "sync_connect" THEN 10 ELSE 30
          IN  /\ cmd[c].waited <= bound
              /\ (cmd[c].waited = bound /\ cmd'[c] # cmd[c]) =>
                    FailsWith(c, IF cmd[c].pc = "send" THEN "Connection failed: "
                                                       ELSE "Invalid response: ")
              /\ (cmd[c].waited < bound /\ cmd'[c].pc = "idle")
                    => cmd_result'.value # <<"Connection failed: ", "timed out">>
                       /\ cmd_result'.value # <<"Invalid response: ", "timed out">>]_vars

(* A list call has ended by its timer; a pull call that reads the body of  *)
(* its response has waited 30 s.                                           *)
C27_Witness ==
    /\ cmd_result.op = "sync_connect"
    /\ cmd_result.value = <<"Connection failed: ", "timed out">>
    /\ \E c \in Cmds :
          /\ cmd[c].op = "sync_pull_story"
          /\ cmd[c].pc = "body"
          /\ cmd[c].waited = 30

-----------------------------------------------------------------------------
(* Task t, not cancelled, is polled for the first time: it binds its       *)
(* socket or ends.                                                         *)
Binds(t) ==
    /\ tasks[t].pc = "start"
    /\ tasks[t].status = "running"
    /\ tasks'[t] # tasks[t]
    /\ tasks'[t].status # "aborted"

(* C28: a start command that replaces a running instance gets the port:    *)
(* when start_sync_server binds SYNC_PORT, and when the responder of       *)
(* start_udp_broadcast binds DISCOVERY_PORT, the instance cancelled before *)
(* holds the port no more; the listener is created and the responder       *)
(* listens.                                                                *)
C28_RestartGetsThePort ==
    [][/\ \A c \in Cmds :
             Runs(c, "start_sync_server", "bind") =>
                /\ tcp_port = 0
                /\ Creates(c)
                /\ tcp_port' = cmd'[c].task
       /\ \A t \in 1..Len(tasks) :
             (tasks[t].kind = "responder" /\ Binds(t)) =>
                /\ udp_port = 0
                /\ tasks'[t].pc = "recv"
                /\ udp_port' = t]_vars

-----------------------------------------------------------------------------
(* C29: when no start_sync_server and no stop_sync_server is in flight, a  *)
(* store is registered exactly when a listener handle is, and the          *)
(* registered store is the one the registered listener serves.             *)
C29_StoreMatchesListener ==
    (\A c \in Cmds : cmd[c].pc = "idle") =>
        /\ (server_state # 0) <=> (server_handle # 0)
        /\ server_handle # 0 => tasks[server_handle].sid = server_state

-----------------------------------------------------------------------------
(* The calls as the mutexes see them: each is the sequence of lock().await *)
(* and guard drops of its code, for one branch of the code.  The handlers  *)
(* and the commands are taken on one ServerState, the registered one.      *)

Lock(m)   == [do |-> "lock", m |-> m]
Unlock(m) == [do |-> "unlock", m |-> m]
Once(m)   == <<Lock(m), Unlock(m)>>

(* commands.rs 215-230: the guards of server_handle and broadcast_handle   *)
(* live to the end, the guard of server_state is a temporary of line 221.  *)
StopLocks ==
    <<Lock("server_handle")>> \o Once("server_state")
        \o <<Lock("broadcast_handle"), Unlock("broadcast_handle"),
             Unlock("server_handle")>>

(* server.rs 113-153: the rate limit check, then the failure recorded, or  *)
(* the failures cleared.                                                   *)
AuthLocks == Once("auth_failures") \o Once("auth_failures")

(* server.rs 158-197: the guard of stories lives to the end of the arm.    *)
OfferLocks(logs) ==
    <<Lock("stories")>> \o (IF logs THEN Once("sync_events") ELSE <<>>)
        \o <<Unlock("stories")>>

(* A variant of the arm that logs first and reads the offers under the     *)
(* guard of the events.                                                    *)
ListLocks_EventsFirst ==
    <<Lock("sync_events")>> \o Once("stories") \o <<Unlock("sync_events")>>

(* server.rs 159-173: ListStories                                          *)
ListLocks == OfferLocks(TRUE)

(* commands.rs 234-271: a poll, with a store registered or without.        *)
PollLocks(inner, some) ==
    <<Lock("server_state")>> \o (IF some THEN Once(inner) ELSE <<>>)
        \o <<Unlock("server_state")>>

(* commands.rs 334-365: the guard of discovery_handle lives to the end.    *)
DiscoveryLocks ==
    <<Lock("discovery_handle")>> \o Once("discovered_devices")
        \o <<Unlock("discovery_handle")>>

(* What a call is and does: the function, the branch b it takes, its locks.*)
LockCall(name, prog) == [call |-> name, prog |-> prog]

LockCalls ==
    { LockCall("stop_sync_server", StopLocks),
      \* commands.rs 138-172: stopped, offers loaded, the bind fails
      LockCall("start_sync_server: Err", StopLocks \o Once("stories")),
      \* commands.rs 138-202
      LockCall("start_sync_server: Ok",
               StopLocks \o Once("stories") \o Once("server_handle")
                   \o Once("server_state")),
      LockCall("get_received_stories: Some", PollLocks("received_stories", TRUE)),
      LockCall("get_received_stories: None", PollLocks("received_stories", FALSE)),
      LockCall("clear_received_stories: Some", PollLocks("received_stories", TRUE)),
      LockCall("get_sync_events: Some", PollLocks("sync_events", TRUE)),
      LockCall("get_sync_events: None", PollLocks("sync_events", FALSE)),
      \* commands.rs 293-329
      LockCall("start_udp_broadcast", Once("broadcast_handle")),
      LockCall("stop_udp_broadcast", Once("broadcast_handle")),
      LockCall("start_discovery", DiscoveryLocks),
      LockCall("stop_discovery", DiscoveryLocks),
      \* commands.rs 369-373
      LockCall("get_discovered_devices", Once("discovered_devices")),
      \* server.rs 395: the requester puts a device into the list
      LockCall("spawn_discovery_requester", Once("discovered_devices")),
      \* server.rs 113-128: the address is blocked
      LockCall("handle_sync: blocked", Once("auth_failures")),
      \* server.rs 113-150: the token is wrong
      LockCall("handle_sync: invalid", AuthLocks),
      LockCall("handle_sync: ListStories", AuthLocks \o ListLocks),
      LockCall("handle_sync: PullStory", AuthLocks \o OfferLocks(TRUE)),
      LockCall("handle_sync: PullStory, not found", AuthLocks \o OfferLocks(FALSE)),
      \* server.rs 198-224
      LockCall("handle_sync: PushStory",
               AuthLocks \o Once("sync_events") \o Once("received_stories")) }

Held(p) == { m \in Mutexes : mutex[m] = p }

Busy(p) == thread[p].pc # 0

AtEnd(p) == Busy(p) /\ thread[p].pc > Len(thread[p].prog)

Instr(p) == thread[p].prog[thread[p].pc]

Waits(p, m) == Busy(p) /\ ~AtEnd(p) /\ Instr(p) = Lock(m)

restOfHost ==
    <<server_handle, server_state, broadcast_handle, discovery_handle,
      discovered_devices, handle_owner, tasks, store, cmd, cmd_result, hreq,
      hreply, tcp_port, udp_port, udp_sent, budget, drains, appended, if_addrs>>

(* A command is invoked, a request arrives, a datagram is admitted.        *)
Enter(p, c) ==
    /\ ~Busy(p)
    /\ thread' = [thread EXCEPT ![p] = [call |-> c.call, prog |-> c.prog, pc |-> 1]]
    /\ UNCHANGED mutex

(* m.lock().await returns when the mutex is free.                          *)
Acquire(p) ==
    /\ \E m \in Mutexes :
          /\ Waits(p, m)
          /\ mutex[m] = 0
          /\ mutex' = [mutex EXCEPT ![m] = p]
    /\ thread' = [thread EXCEPT ![p].pc = @ + 1]

(* A guard is dropped.                                                     *)
Release(p) ==
    /\ Busy(p)
    /\ ~AtEnd(p)
    /\ Instr(p).do = "unlock"
    /\ mutex' = [mutex EXCEPT ![Instr(p).m] = 0]
    /\ thread' = [thread EXCEPT ![p].pc = @ + 1]

(* The call returns.                                                       *)
Leave(p) ==
    /\ AtEnd(p)
    /\ thread' = [thread EXCEPT ![p] = IdleThread]
    /\ UNCHANGED mutex

(* SpecLocks: any calls, any branches, NumThreads at a time.  A task that  *)
(* can run is polled; the tokio Mutex is fair (first in, first out), so a  *)
(* call that waits for a mutex which is freed again and again gets it.     *)

LockStep(A) == A /\ UNCHANGED <<serverVars, tokenVars, restOfHost>>

InitLocks == InitIdleServer /\ InitHost(NoBudget)

NextLocks ==
    \/ \E p \in Threads, c \in LockCalls : LockStep(Enter(p, c))
    \/ \E p \in Threads : LockStep(Acquire(p))
    \/ \E p \in Threads : LockStep(Release(p))
    \/ \E p \in Threads : LockStep(Leave(p))

LockFairness ==
    \A p \in Threads :
       /\ SF_vars(LockStep(Acquire(p)))
       /\ WF_vars(LockStep(Release(p)))
       /\ WF_vars(LockStep(Leave(p)))

SpecLocks == InitLocks /\ [][NextLocks]_vars /\ LockFairness

(* The pairs (held, awaited) of the code.                                  *)
LockOrder ==
    { <<"server_handle", "server_state">>, <<"server_handle", "broadcast_handle">>,
      <<"server_state", "received_stories">>, <<"server_state", "sync_events">>,
      <<"stories", "sync_events">>, <<"discovery_handle", "discovered_devices">> }

RECURSIVE Reaches(_, _, _)
Reaches(a, b, n) ==
    \/ <<a, b>> \in LockOrder
    \/ n > 0 /\ \E m \in Mutexes : <<a, m>> \in LockOrder /\ Reaches(m, b, n - 1)

Acyclic == \A m \in Mutexes : ~Reaches(m, m, Cardinality(Mutexes))

(* C30: the calls do not deadlock.  A call waits for a mutex while it      *)
(* holds another only in the pairs of LockOrder, which has no cycle; in    *)
(* every state with a call in flight some call can take a step, a call     *)
(* that returns holds no mutex, and every call that is in flight returns.  *)
C30_NoDeadlock ==
    /\ [](/\ Acyclic
          /\ \A p \in Threads :
                /\ \A m \in Mutexes :
                      Waits(p, m) => \A h \in Held(p) : <<h, m>> \in LockOrder
                /\ AtEnd(p) => Held(p) = {}
          /\ (\E p \in Threads : Busy(p)) =>
                \E p \in Threads :
                   \/ AtEnd(p)
                   \/ Busy(p) /\ ~AtEnd(p) /\ Instr(p).do = "unlock"
                   \/ \E m \in Mutexes : Waits(p, m) /\ mutex[m] = 0)
    /\ \A p \in Threads : Busy(p) ~> ~Busy(p)

(* A ListStories request holds the offers and waits for the events, which  *)
(* get_sync_events holds together with the registered store.               *)
C30_Witness ==
    \E p, q \in Threads :
       /\ thread[p].call = "handle_sync: ListStories"
       /\ Held(p) = {"stories"}
       /\ Waits(p, "sync_events")
       /\ thread[q].call = "get_sync_events: Some"
       /\ Held(q) = {"server_state", "sync_events"}

-----------------------------------------------------------------------------
(* The 'pushed' events among events.                                       *)
PushedIn(events) ==
    Len(SelectSeq(events, LAMBDA e : e.event_type = "pushed"))

(* The pushes on store sid that have logged their event and have not yet   *)
(* stored their payload (server.rs, between lines 206 and 208).            *)
Pending(sid) ==
    Cardinality({ h \in Handlers : hreq[h].sid = sid /\ hreq[h].pc = "store" })

NoClearYet ==
    budget["clear_received_stories"] = StoreBudget["clear_received_stories"]

(* C31 as stated: when get_sync_events returns, every 'pushed' event it or *)
(* an earlier drain of the store has returned has its payload in the       *)
(* received stories, and a get_received_stories after it, with no clear in *)
(* between, returns at least as many stories as 'pushed' events were       *)
(* returned.                                                               *)
C31_PayloadBeforeEvent ==
    [][/\ (Polls("get_sync_events") /\ server_state # 0 /\ NoClearYet) =>
             PushedIn(Delivered(drains', server_state))
                <= Len(store[server_state].received_stories)
       /\ (Polls("get_received_stories") /\ server_state # 0 /\ NoClearYet) =>
             PushedIn(Delivered(drains, server_state)) <= Len(cmd_result'.value)]_vars

(* C31, amended: the 'pushed' event is logged before the payload is        *)
(* stored.  While nothing was cleared, the 'pushed' events logged on a     *)
(* store are as many as its received stories and the pushes that have yet  *)
(* to store their payload; get_received_stories returns the payload of     *)
(* every push that was acknowledged before, and lacks, of the pushes whose *)
(* event was drained, at most those not yet acknowledged.                  *)
C31_EventBeforePayload ==
    [][/\ \A sid \in 1..Len(store') :
             NoClearYet' =>
                PushedIn(appended'[sid])
                   = Len(store'[sid].received_stories)
                     + Cardinality({ h \in Handlers : hreq'[h].sid = sid
                                                      /\ hreq'[h].pc = "store" })
       /\ (Polls("get_received_stories") /\ server_state # 0 /\ NoClearYet) =>
             /\ Len(cmd_result'.value)
                   = PushedIn(appended[server_state]) - Pending(server_state)
             /\ PushedIn(Delivered(drains, server_state)) - Pending(server_state)
                   <= Len(cmd_result'.value)]_vars

(* The drain has returned the 'pushed' event of a push that has not stored *)
(* its payload, and get_received_stories after it has returned nothing.    *)
C31_Witness ==
    /\ server_state = 1
    /\ NoClearYet
    /\ PushedIn(Delivered(drains, 1)) = 1
    /\ Pending(1) = 1
    /\ store[1].received_stories = <<>>
    /\ cmd_result.op = "get_received_stories"
    /\ cmd_result.value = <<>>

-----------------------------------------------------------------------------
(* C32: no accepted push is lost.  When the host has read the received     *)
(* stories and clears them next, the clear removes what the read returned  *)
(* and nothing else: every story it removes was returned by the read.      *)
C32_ClearRemovesOnlyWhatWasRead ==
    [][(/\ Polls("clear_received_stories")
        /\ server_state # 0
        /\ cmd_result.op = "get_received_stories")
          => store[server_state].received_stories = cmd_result.value]_vars

====
